---------------------------- MODULE Spec2Model ----------------------------
(***************************************************************************)
(* A model of grafterm's metric-gathering engine:                          *)
(*   - the datasource router (internal/service/metric/datasource),         *)
(*   - the enhanced Prometheus gatherer (timeouts, retry loop, counters).  *)
(*   - the metric cache (internal/service/metric/cache.go),                *)
(*   - the query executor (ExecuteQuery, executeWithRetry) and the         *)
(*     parallel executor's fan-out (ExecuteWidgetQueries),                 *)
(*   - the view: App.Run's loop, dashboard.Sync and the widgets' Sync.     *)
(* Each component has its own specification over the shared variables:     *)
(*   SpecRouter, SpecTimeout, SpecGatherer, SpecMetrics, SpecCache,        *)
(*   SpecExecutor, SpecAdmission, SpecBatch, SpecBatchLive, SpecApp,       *)
(*   SpecDashboard, SpecWidget, SpecThreads.                               *)
(* Durations are integers in milliseconds.                                 *)
(***************************************************************************)
EXTENDS Integers, Sequences, FiniteSets, TLC

VARIABLES
    \* ---- datasource router -------------------------------------------
    cfg,            \* the ConfigGatherer handed to NewGatherer (NoCfg before)
    created,        \* the gatherers createGatherer has returned so far
    router,         \* the *gatherer NewGatherer returned (NoRouter: nil)
    newErr,         \* the error NewGatherer returned (NoErr: nil)
    lastQuery,      \* outcome of the last GatherSingle/GatherRange on router
    \* ---- enhanced gatherer: timeout ------------------------------------
    timeout,        \* enhancedGatherer.timeout
    lastSetTimeout, \* argument of the last SetTimeout call (NoArg: none yet)
    rangeCall,      \* last calculateRangeTimeout call: its inputs and result
    \* ---- enhanced gatherer: counters and calls -------------------------
    metrics,        \* enhancedGatherer.metrics (gathererMetrics)
    calls,          \* per caller: the GatherSingle/GatherRange in progress
    \* ---- enhanced gatherer: metrics lock -------------------------------
    mu,             \* gathererMetrics.mu (sync.RWMutex)
    procs,          \* per goroutine: the mark*/GetMetrics call in progress
    \* ---- metric cache -------------------------------------------------
    now,            \* the wall clock, in milliseconds
    nextSweep,      \* when the cleanup routine's ticker fires next
    cache,          \* the *MetricCache (NoCache before NewMetricCache)
    cacheOps,       \* number of Get/Set/Clear calls and clock advances
    lastOp,         \* the last Get/Set/Clear call made by a caller
    lastGet,        \* what the last Get call saw and returned
    \* ---- query executor -----------------------------------------------
    qe,             \* the *QueryExecutor (NoExecutor before NewQueryExecutor)
    qcalls,         \* per caller: the ExecuteQuery call in progress
    others,         \* further ExecuteQuery calls admitted and still in flight
    lastSuccess,    \* the last ExecuteQuery that returned a gatherer result
    \* ---- parallel query executor ---------------------------------------
    batch,          \* the ExecuteWidgetQueries call (NoBatch before it)
    \* ---- view: application loop, dashboard, widgets --------------------
    app,            \* the *App and its Run loop
    dash,           \* the dashboard and its Sync call
    widget,         \* one gauge/singlestat widget and the Sync calls on it
    \* ---- enhanced gatherer: concurrent callers -------------------------
    egmu,           \* enhancedGatherer.mu (sync.RWMutex)
    threads,        \* per goroutine of the concurrent run: its position
    \* ---- metric cache: concurrent callers ------------------------------
    cmu,            \* MetricCache.mu (sync.RWMutex)
    ccalls          \* the Get/Set/Clear calls in progress and their count

routerVars  == <<cfg, created, router, newErr, lastQuery>>
timeoutVars == <<timeout, lastSetTimeout, rangeCall>>
gatherVars  == <<metrics, calls>>
lockVars    == <<mu, procs>>
cacheVars   == <<now, nextSweep, cache, cacheOps, lastOp, lastGet>>
execVars    == <<qe, qcalls, others, lastSuccess>>
threadVars  == <<egmu, threads>>
raceVars    == <<cmu, ccalls>>
viewVars    == <<batch, app, dash, widget, threadVars, raceVars>>
engineVars  == <<routerVars, timeoutVars, gatherVars, lockVars, cacheVars,
                 execVars>>
vars == <<cfg, created, router, newErr, lastQuery, timeout, lastSetTimeout,
          rangeCall, metrics, calls, mu, procs,
          now, nextSweep, cache, cacheOps, lastOp, lastGet,
          qe, qcalls, others, lastSuccess,
          batch, app, dash, widget, egmu, threads, cmu, ccalls>>

NoErr == <<>>

(***************************************************************************)
(*                         DATASOURCE ROUTER                               *)
(***************************************************************************)

\* Bounds of the router's inputs.
MaxDashboardDatasources == 1
MaxUserDatasources == 2
MaxAliases == 2

DatasourceIDs == {"prometheus", "prom2", "localprom"}
\* The datasource kinds createGatherer knows, and "none": no kind set.
ValidKinds == {"prometheus", "graphite", "influxdb", "fake"}
InputKinds == {"prometheus", "none"}
Datasources == [ID : DatasourceIDs, Kind : InputKinds]

NoCfg == [none |-> TRUE]
NoRouter == [nil |-> TRUE]
NoGatherer == [nil |-> TRUE]
NoQuery == [none |-> TRUE]

SeqsUpTo(S, n) == UNION {[1..k -> S] : k \in 0..n}

\* Aliases is a Go map: a function from some dashboard IDs to user IDs.
AliasMaps ==
    UNION {[D -> DatasourceIDs] :
             D \in {X \in SUBSET DatasourceIDs : Cardinality(X) <= MaxAliases}}

Configs ==
    [DashboardDatasources : SeqsUpTo(Datasources, MaxDashboardDatasources),
     UserDatasources : SeqsUpTo(Datasources, MaxUserDatasources),
     Aliases : AliasMaps]

\* m[k] = v on a Go map.
Put(m, k, v) == [x \in (DOMAIN m) \cup {k} |-> IF x = k THEN v ELSE m[x]]

EmptyMap == [x \in {} |-> NoGatherer]

\* createGatherer: the gatherer is identified by the datasource it was
\* created from (which list, which position).
createGatherer(ds, origin, idx) ==
    IF ds.Kind \in ValidKinds
    THEN [g |-> [origin |-> origin, idx |-> idx], err |-> NoErr]
    ELSE [g |-> NoGatherer, err |-> <<"not a valid datasource">>]

\* The two creation loops of NewGatherer: for _, ds := range dss, from
\* position i on, into map gs; stops at the first creation error.
RECURSIVE CreateLoop(_, _, _, _, _)
CreateLoop(dss, origin, i, gs, made) ==
    IF i > Len(dss)
    THEN [gs |-> gs, err |-> NoErr, made |-> made]
    ELSE LET c == createGatherer(dss[i], origin, i)
         IN IF c.err # NoErr
            THEN [gs |-> gs, err |-> c.err, made |-> made]
            ELSE CreateLoop(dss, origin, i + 1, Put(gs, dss[i].ID, c.g),
                            made \cup {c.g})

\* Variant: every user datasource is registered under its own ID too.
UserOverrideMerges(gs, ags) ==
    [id \in (DOMAIN gs) \cup (DOMAIN ags) |->
        IF id \in DOMAIN ags THEN ags[id] ELSE gs[id]]
\* Variant: the user datasources never replace the dashboard's.
UserOverrideSkipped(gs, ags) == gs

\* for id := range gs { if g, ok := ags[id]; ok { gs[id] = g } }
UserOverride(gs, ags) ==
    [id \in DOMAIN gs |-> IF id \in DOMAIN ags THEN ags[id] ELSE gs[id]]

\* g, ok := m[k]: the zero value (nil) when k is missing.
Lookup(m, k) == IF k \in DOMAIN m THEN m[k] ELSE NoGatherer

\* Variant: the check looks up the alias source instead of its target.
BadAliasesChecksSource(aliases, ags) ==
    {id \in DOMAIN aliases : id \notin DOMAIN ags}

\* The alias entries whose target is no user datasource.
BadAliases(aliases, ags) == {id \in DOMAIN aliases : aliases[id] \notin DOMAIN ags}

\* Variant: the direct-match loop runs after the alias loop.
AliasOverrideBeforeUser(gs, aliases, ags) ==
    [id \in (DOMAIN gs) \cup (DOMAIN aliases) |->
        IF id \in DOMAIN ags THEN ags[id]
        ELSE IF id \in DOMAIN aliases THEN Lookup(ags, aliases[id])
        ELSE gs[id]]

\* for id, alias := range cfg.Aliases { gs[id] = ags[alias] } when every
\* target exists (each iteration writes its own key).
AliasOverride(gs, aliases, ags) ==
    [id \in (DOMAIN gs) \cup (DOMAIN aliases) |->
        IF id \in DOMAIN aliases THEN Lookup(ags, aliases[id]) ELSE gs[id]]

AliasErr(alias, id) == <<"alias", alias, "for ID", id, "not found">>

NotFoundErr(id) == <<"datasource", id, "does not exists">>

\* NewGatherer(cfg). The alias loop ranges over a Go map, so with several
\* bad aliases the one reported is any of them.
NewGatherer(c) ==
    /\ cfg = NoCfg
    /\ cfg' = c
    /\ lastQuery' = lastQuery
    /\ LET d == CreateLoop(c.DashboardDatasources, "dashboard", 1, EmptyMap, {})
       IN IF d.err # NoErr
          THEN /\ router' = NoRouter
               /\ newErr' = d.err
               /\ created' = d.made
          ELSE LET u == CreateLoop(c.UserDatasources, "user", 1, EmptyMap, {})
               IN IF u.err # NoErr
                  THEN /\ router' = NoRouter
                       /\ newErr' = u.err
                       /\ created' = d.made \cup u.made
                  ELSE LET gs == UserOverride(d.gs, u.gs)
                           bad == BadAliases(c.Aliases, u.gs)
                       IN /\ created' = d.made \cup u.made
                          /\ IF bad # {}
                             THEN /\ router' = NoRouter
                                  /\ \E id \in bad :
                                        newErr' = AliasErr(c.Aliases[id], id)
                             ELSE /\ router' = [gatherers |->
                                        AliasOverride(gs, c.Aliases, u.gs)]
                                  /\ newErr' = NoErr
    /\ UNCHANGED <<timeoutVars, gatherVars, lockVars>>
    /\ UNCHANGED <<cacheVars, execVars, viewVars>>

\* Variant: an unknown ID falls back to some registered gatherer.
metricGathererFallback(r, id) ==
    IF id \in DOMAIN r.gatherers
    THEN [mg |-> r.gatherers[id], err |-> NoErr, lookups |-> 1]
    ELSE IF DOMAIN r.gatherers # {}
    THEN [mg |-> r.gatherers[CHOOSE k \in DOMAIN r.gatherers : TRUE],
          err |-> NoErr, lookups |-> 2]
    ELSE [mg |-> NoGatherer, err |-> NotFoundErr(id), lookups |-> 1]

\* gatherer.metricGatherer(id): one lookup in the table.
metricGatherer(r, id) ==
    IF id \in DOMAIN r.gatherers
    THEN [mg |-> r.gatherers[id], err |-> NoErr, lookups |-> 1]
    ELSE [mg |-> NoGatherer, err |-> NotFoundErr(id), lookups |-> 1]

\* What the gatherer a query is dispatched to may answer.
DownstreamErrs == {NoErr, <<"connection refused">>}

\* gatherer.GatherSingle / gatherer.GatherRange: resolve, then delegate.
Gather(op, id) ==
    /\ router # NoRouter
    /\ LET res == metricGatherer(router, id)
       IN IF res.err # NoErr
          THEN lastQuery' = [op |-> op, id |-> id, dispatched |-> NoGatherer,
                             lookups |-> res.lookups, err |-> res.err]
          ELSE \E e \in DownstreamErrs :
                  lastQuery' = [op |-> op, id |-> id, dispatched |-> res.mg,
                                lookups |-> res.lookups, err |-> e]
    /\ UNCHANGED <<cfg, created, router, newErr>>
    /\ UNCHANGED <<timeoutVars, gatherVars, lockVars>>
    /\ UNCHANGED <<cacheVars, execVars, viewVars>>

GatherSingle(id) ==
    /\ Gather("GatherSingle", id)

GatherRange(id) ==
    /\ Gather("GatherRange", id)

InitRouter ==
    /\ cfg = NoCfg
    /\ created = {}
    /\ router = NoRouter
    /\ newErr = NoErr
    /\ lastQuery = NoQuery

\* NewGatherer is called once, so its inputs are enumerated only before it.
NextRouter ==
    \/ cfg = NoCfg /\ \E c \in Configs : NewGatherer(c)
    \/ \E id \in DatasourceIDs : GatherSingle(id)
    \/ \E id \in DatasourceIDs : GatherRange(id)

\* IDs declared by a datasource list.
IDsOf(dss) == {dss[i].ID : i \in 1..Len(dss)}

(***************************************************************************)
(*                  ENHANCED GATHERER: THE CLAMPED TIMEOUT                 *)
(***************************************************************************)

\* The model's unit of time is the millisecond.
Second == 1000
Minute == 60 * Second
Hour == 60 * Minute

DefaultTimeout == 5 * Second
MinTimeout == 1 * Second
MaxTimeout == 30 * Second

NoRangeCall == [none |-> TRUE]

\* Arguments tried for SetTimeout.
TimeoutInputs ==
    {-5 * Second, -1, 0, 1, 500, 999, Second, 3 * Second, 29 * Second,
     30 * Second, 30 * Second + 1, 60 * Second}

\* Instants tried as range start and range end.
RangeStarts == {0, 30 * Minute}
RangeEnds ==
    {0, 5 * Minute, 30 * Minute, 60 * Minute, 61 * Minute, 90 * Minute,
     2 * Hour, 3 * Hour, 6 * Hour, 24 * Hour}

\* Variant: the minimum is not enforced.
clampTimeoutNoFloor(duration) ==
    LET d1 == IF duration <= 0 THEN DefaultTimeout ELSE duration
    IN IF d1 > 30 * Second THEN 30 * Second ELSE d1

\* The value SetTimeout stores for argument duration.
clampTimeout(duration) ==
    LET d1 == IF duration <= 0 THEN DefaultTimeout ELSE duration
        d2 == IF d1 > 30 * Second THEN 30 * Second ELSE d1
    IN IF d2 < Second THEN Second ELSE d2

\* enhancedGatherer.SetTimeout: eg.mu is held for the assignment only.
SetTimeout(duration) ==
    /\ timeout' = clampTimeout(duration)
    /\ lastSetTimeout' = <<duration>>
    /\ UNCHANGED rangeCall
    /\ UNCHANGED <<routerVars, gatherVars, lockVars>>
    /\ UNCHANGED <<cacheVars, execVars, viewVars>>

\* enhancedGatherer.timeoutDuration on a non-nil gatherer.
timeoutDuration == timeout

RECURSIVE GCD(_, _)
GCD(a, b) == IF b = 0 THEN a ELSE GCD(b, a % b)

\* Variant: the scaled timeout is not capped.
ScaleUncapped(baseTimeout, rangeSize) ==
    LET g == GCD(rangeSize, Hour)
        num == rangeSize \div g
        den == Hour \div g
    IN IF num > den THEN (baseTimeout * num) \div den ELSE baseTimeout

\* time.Duration(float64(baseTimeout) * scaleFactor) with
\* scaleFactor = float64(rangeSize) / float64(1*time.Hour), as an exact
\* fraction in lowest terms, truncated toward zero, capped at 30s.
ScaleTimeout(baseTimeout, rangeSize) ==
    LET g == GCD(rangeSize, Hour)
        num == rangeSize \div g
        den == Hour \div g
    IN IF num > den
       THEN LET t == (baseTimeout * num) \div den
            IN IF t > 30 * Second THEN 30 * Second ELSE t
       ELSE baseTimeout

\* enhancedGatherer.calculateRangeTimeout(start, end).
calculateRangeTimeout(start, end) ==
    LET rangeSize == end - start
        baseTimeout == timeoutDuration
    IN IF rangeSize <= 0 THEN baseTimeout
       ELSE ScaleTimeout(baseTimeout, rangeSize)

\* A call of calculateRangeTimeout, with what it read and returned.
CalculateRangeTimeout(start, end) ==
    /\ rangeCall' = [start |-> start, end |-> end, base |-> timeoutDuration,
                     result |-> calculateRangeTimeout(start, end)]
    /\ UNCHANGED <<timeout, lastSetTimeout>>
    /\ UNCHANGED <<routerVars, gatherVars, lockVars>>
    /\ UNCHANGED <<cacheVars, execVars, viewVars>>

InitTimeout ==
    /\ timeout = DefaultTimeout
    /\ lastSetTimeout = <<>>
    /\ rangeCall = NoRangeCall

NextTimeout ==
    \/ \E d \in TimeoutInputs : SetTimeout(d)
    \/ \E s \in RangeStarts, e \in RangeEnds : CalculateRangeTimeout(s, e)

(***************************************************************************)
(*          ENHANCED GATHERER: OUTCOME COUNTERS AND THE RETRY LOOP         *)
(***************************************************************************)

\* Goroutines calling GatherSingle/GatherRange on the one gatherer.
Callers == {"c1", "c2"}
\* Invocations each caller makes at most.
MaxInvocations == 2

\* Error messages, as sequences of words.
ErrDeadlineExceeded == <<"context", "deadline", "exceeded">>
ErrCanceled == <<"context", "canceled">>
ErrRequestTimeout == <<"request", "timeout">>
ErrConnectionRefused == <<"connection", "refused">>

\* What ctx.Err() is once the context has ended.
CtxErrs == {ErrDeadlineExceeded, ErrCanceled}
\* The errors a backend call may return.
BackendErrs ==
    {ErrDeadlineExceeded, ErrCanceled, ErrRequestTimeout, ErrConnectionRefused}
\* Wall-clock durations a call may have taken when it returns.
ExecDurations == {100, 200}

\* strings.Contains(msg, pat), word by word.
Contains(msg, pat) ==
    \E i \in 1..(Len(msg) - Len(pat) + 1) :
        SubSeq(msg, i, i + Len(pat) - 1) = pat

\* fmt.Errorf("<prefix>: %w", err)
Wrap(prefix, err) == prefix \o <<":">> \o err

\* prometheus.isContextError
isContextError(err) ==
    /\ err # NoErr
    /\ \/ Contains(err, <<"deadline", "exceeded">>)
       \/ Contains(err, <<"canceled">>)
       \/ Contains(err, <<"timeout">>)

ZeroMetrics ==
    [queriesTotal |-> 0, queriesSuccessful |-> 0, queriesFailed |-> 0,
     queriesTimeout |-> 0, averageExecTime |-> 0]

ZeroDelta ==
    [queriesTotal |-> 0, queriesSuccessful |-> 0, queriesFailed |-> 0,
     queriesTimeout |-> 0]

\* The counters each mark operation increments, in statement order.
markSuccessFields == <<"queriesTotal", "queriesSuccessful">>
\* Variant: markFailure counts a timeout.
markFailureFieldsWrongCounter == <<"queriesTotal", "queriesTimeout">>
markFailureFields == <<"queriesTotal", "queriesFailed">>
markTimeoutFields == <<"queriesTotal", "queriesTimeout">>

\* m.<field>++ for each field in turn.
RECURSIVE Increment(_, _)
Increment(m, fields) ==
    IF fields = <<>> THEN m
    ELSE Increment([m EXCEPT ![Head(fields)] = @ + 1], Tail(fields))

\* The whole body of a mark operation (run with metrics.mu held).
markSuccess(m) == Increment(m, markSuccessFields)
markFailure(m) == Increment(m, markFailureFields)
markTimeout(m) == Increment(m, markTimeoutFields)

\* Variant: the newest sample replaces the stored value.
recordLastSample(m, duration) == [m EXCEPT !.averageExecTime = duration]
\* recordExecutionTime: (oldAvg + duration) / 2 in float64, truncated.
recordExecutionTime(m, duration) ==
    IF m.queriesSuccessful > 0
    THEN [m EXCEPT !.averageExecTime = (@ + duration) \div 2]
    ELSE [m EXCEPT !.averageExecTime = duration]

\* getLastExecutionTime / GetLastExecutionTime
getLastExecutionTime(m) == m.averageExecTime

\* What an operation added to the counters.
Delta(after, before) ==
    [f \in DOMAIN ZeroDelta |-> after[f] - before[f]]

AddDelta(d1, d2) == [f \in DOMAIN ZeroDelta |-> d1[f] + d2[f]]

\* The attempt budget of executeWithRetry and executeWithRetryForRange.
maxRetries == 2

IdleCall ==
    [pc |-> "idle", kind |-> "none", n |-> 0, retry |-> 0, ctxErr |-> NoErr,
     ctxTimeout |-> 0, results |-> <<>>, delta |-> ZeroDelta,
     err |-> NoErr, exit |-> "none", duration |-> 0, parentErr |-> NoErr]

\* Invocations started so far, over all callers.
RECURSIVE Started(_)
Started(S) ==
    IF S = {} THEN 0
    ELSE LET p == CHOOSE x \in S : TRUE
         IN calls[p].n + Started(S \ {p})

\* Entry of GatherSingle/GatherRange: derive the child context. parentErr is
\* the caller's ctx.Err() on entry; the child's own deadline lies at least
\* MinTimeout ahead.  The field parentErr is not in the code: it keeps what
\* the caller's context was on entry.
Enter(p, kind, parentErr, ctxTimeout) ==
    /\ calls[p].pc \in {"idle", "returned"}
    /\ Started(Callers) < MaxInvocations
    /\ calls' = [calls EXCEPT ![p] =
                    [IdleCall EXCEPT !.pc = "loop", !.kind = kind,
                                     !.n = calls[p].n + 1,
                                     !.ctxErr = parentErr,
                                     !.parentErr = parentErr,
                                     !.ctxTimeout = ctxTimeout]]
    /\ UNCHANGED metrics
    /\ UNCHANGED <<routerVars, timeoutVars, lockVars>>
    /\ UNCHANGED <<cacheVars, execVars, viewVars>>

\* enhancedGatherer.GatherSingle up to the call of executeWithRetry.
egGatherSingle(p, parentErr) ==
    /\ Enter(p, "single", parentErr, timeoutDuration)

\* enhancedGatherer.GatherRange up to the call of executeWithRetryForRange.
egGatherRange(p, parentErr, start, end) ==
    /\ Enter(p, "range", parentErr, calculateRangeTimeout(start, end))

\* The call's context ends (its deadline passes or the parent is cancelled)
\* while the call is in progress.
CtxDone(p, e) ==
    /\ calls[p].pc \in {"loop", "query", "backoff"}
    /\ calls[p].ctxErr = NoErr
    /\ calls' = [calls EXCEPT ![p].ctxErr = e]
    /\ UNCHANGED metrics
    /\ UNCHANGED <<routerVars, timeoutVars, lockVars>>
    /\ UNCHANGED <<cacheVars, execVars, viewVars>>

\* return err from the retry loop with the counters left as m, then the
\* deferred cancel() and recordExecutionTime(time.Since(start)).  The field
\* duration is not in the code: it keeps time.Since(start) of the call.
Return(p, m, err, exit, results, duration) ==
    /\ calls' = [calls EXCEPT ![p].pc = "returned", ![p].err = err,
                              ![p].exit = exit, ![p].results = results,
                              ![p].delta = AddDelta(@, Delta(m, metrics)),
                              ![p].duration = duration]
    /\ metrics' = recordExecutionTime(m, duration)

DeadlinePrefix(kind) ==
    IF kind = "single" THEN <<"query", "deadline", "exceeded">>
    ELSE <<"range", "query", "deadline", "exceeded">>

\* Variant: the loop calls the backend without looking at the context.
LoopCheckMissing(p) ==
    /\ calls[p].pc = "loop"
    /\ calls' = [calls EXCEPT ![p].pc = "query"]
    /\ UNCHANGED metrics
    /\ UNCHANGED <<routerVars, timeoutVars, lockVars>>
    /\ UNCHANGED <<cacheVars, execVars, viewVars>>
\* Top of the for loop: if ctx.Err() != nil { markTimeout; return }.
LoopCheck(p) ==
    /\ calls[p].pc = "loop"
    /\ IF calls[p].ctxErr # NoErr
       THEN \E d \in ExecDurations :
               Return(p, markTimeout(metrics),
                      Wrap(DeadlinePrefix(calls[p].kind), calls[p].ctxErr),
                      "ctx_on_check", calls[p].results, d)
       ELSE /\ calls' = [calls EXCEPT ![p].pc = "query"]
            /\ UNCHANGED metrics
    /\ UNCHANGED <<routerVars, timeoutVars, lockVars>>
    /\ UNCHANGED <<cacheVars, execVars, viewVars>>

\* Variant: a context-classified error is retried like any other.
AfterAttemptNoStop(res, retry) ==
    IF res = NoErr THEN "success"
    ELSE IF retry < maxRetries - 1 THEN "backoff"
    ELSE "exhausted"

\* What follows a backend attempt that returned res on loop index retry.
AfterAttempt(res, retry) ==
    IF res = NoErr THEN "success"
    ELSE IF isContextError(res) THEN "backend_ctx"
    ELSE IF retry < maxRetries - 1 THEN "backoff"
    ELSE "exhausted"

\* The backend call (queryFunc / eg.base.GatherRange) returns res.
QueryReturns(p, res) ==
    /\ calls[p].pc = "query"
    /\ LET c == calls[p]
           rs == Append(c.results, res)
           next == AfterAttempt(res, c.retry)
       IN CASE next = "success" ->
                 \E d \in ExecDurations :
                    Return(p, markSuccess(metrics), NoErr, next, rs, d)
            [] next = "backend_ctx" ->
                 \E d \in ExecDurations :
                    Return(p, markTimeout(metrics), res, next, rs, d)
            [] next = "backoff" ->
                 /\ calls' = [calls EXCEPT ![p].pc = "backoff",
                                           ![p].results = rs]
                 /\ UNCHANGED metrics
            [] next = "exhausted" ->
                 \E d \in ExecDurations :
                    Return(p, markFailure(metrics), res, next, rs, d)
    /\ UNCHANGED <<routerVars, timeoutVars, lockVars>>
    /\ UNCHANGED <<cacheVars, execVars, viewVars>>

\* select { case <-time.After(backoff): ... }: the timer fires, next round.
BackoffElapsed(p) ==
    /\ calls[p].pc = "backoff"
    /\ calls' = [calls EXCEPT ![p].pc = "loop", ![p].retry = @ + 1]
    /\ UNCHANGED metrics
    /\ UNCHANGED <<routerVars, timeoutVars, lockVars>>
    /\ UNCHANGED <<cacheVars, execVars, viewVars>>

\* select { ... case <-ctx.Done(): return nil, ctx.Err() }.
BackoffCtxDone(p) ==
    /\ calls[p].pc = "backoff"
    /\ calls[p].ctxErr # NoErr
    /\ \E d \in ExecDurations :
          Return(p, metrics, calls[p].ctxErr, "ctx_in_backoff",
                 calls[p].results, d)
    /\ UNCHANGED <<routerVars, timeoutVars, lockVars>>
    /\ UNCHANGED <<cacheVars, execVars, viewVars>>

InitGatherer ==
    /\ metrics = ZeroMetrics
    /\ calls = [p \in Callers |-> IdleCall]

NextGatherer ==
    \/ \E p \in Callers, e \in CtxErrs \cup {NoErr} : egGatherSingle(p, e)
    \/ \E p \in Callers, e \in CtxErrs \cup {NoErr} :
          egGatherRange(p, e, 0, 2 * Hour)
    \/ \E p \in Callers, e \in CtxErrs : CtxDone(p, e)
    \/ \E p \in Callers : LoopCheck(p)
    \/ \E p \in Callers, res \in BackendErrs \cup {NoErr} : QueryReturns(p, res)
    \/ \E p \in Callers : BackoffElapsed(p)
    \/ \E p \in Callers : BackoffCtxDone(p)

(***************************************************************************)
(*        ENHANCED GATHERER: THE COUNTERS UNDER gathererMetrics.mu         *)
(***************************************************************************)

\* Goroutines calling the mark operations and GetMetrics concurrently.
Goroutines == {"g1", "g2"}
\* Mark operations each goroutine makes at most.
MaxMarks == 2

NoStats == [none |-> TRUE]
NoPre == [none |-> TRUE]

MarkOps == {"markSuccess", "markFailure", "markTimeout"}

\* The statements of a mark operation's body.
MarkFields(op) ==
    CASE op = "markSuccess" -> markSuccessFields
      [] op = "markFailure" -> markFailureFields
      [] op = "markTimeout" -> markTimeoutFields

IdleProc ==
    [pc |-> "idle", op |-> "none", i |-> 0, marks |-> 0, pre |-> NoPre,
     stats |-> NoStats]

Readers(m) == {g \in Goroutines : m.readers[g] > 0}

\* sync.RWMutex: RLock is granted unless a writer holds or awaits the lock.
CanRLock(m) == m.w = "none"
\* Lock first excludes other writers and new readers ...
CanBeginLock(m) == m.w = "none"
\* ... and is granted once the active readers have left.
CanLock(m, g) == m.w = g /\ ~m.held /\ Readers(m) = {}

\* A mark operation: eg.metrics.mu.Lock() begins.
MarkBegin(g, op) ==
    /\ procs[g].pc = "idle"
    /\ procs[g].marks < MaxMarks
    /\ CanBeginLock(mu)
    /\ mu' = [mu EXCEPT !.w = g]
    /\ procs' = [procs EXCEPT ![g] =
                    [@ EXCEPT !.pc = "locking", !.op = op, !.marks = @ + 1,
                              !.stats = NoStats]]
    /\ UNCHANGED metrics
    /\ UNCHANGED <<calls, routerVars, timeoutVars>>
    /\ UNCHANGED <<cacheVars, execVars, viewVars>>

\* Lock() returns: the body starts.
MarkLocked(g) ==
    /\ procs[g].pc = "locking"
    /\ CanLock(mu, g)
    /\ mu' = [mu EXCEPT !.held = TRUE]
    /\ procs' = [procs EXCEPT ![g].pc = "body", ![g].i = 1,
                              ![g].pre = metrics]
    /\ UNCHANGED metrics
    /\ UNCHANGED <<calls, routerVars, timeoutVars>>
    /\ UNCHANGED <<cacheVars, execVars, viewVars>>

\* One increment statement of the body.
MarkStep(g) ==
    /\ procs[g].pc = "body"
    /\ LET fields == MarkFields(procs[g].op)
           i == procs[g].i
       IN /\ metrics' = Increment(metrics, <<fields[i]>>)
          /\ procs' = [procs EXCEPT ![g].i = i + 1,
                          ![g].pc = IF i = Len(fields) THEN "unlock" ELSE "body"]
    /\ UNCHANGED mu
    /\ UNCHANGED <<calls, routerVars, timeoutVars>>
    /\ UNCHANGED <<cacheVars, execVars, viewVars>>

\* The deferred eg.metrics.mu.Unlock().
MarkUnlock(g) ==
    /\ procs[g].pc = "unlock"
    /\ mu' = [mu EXCEPT !.w = "none", !.held = FALSE]
    /\ procs' = [procs EXCEPT ![g].pc = "idle", ![g].pre = NoPre]
    /\ UNCHANGED metrics
    /\ UNCHANGED <<calls, routerVars, timeoutVars>>
    /\ UNCHANGED <<cacheVars, execVars, viewVars>>

\* GetMetrics: RLock(), then the counter fields of the result are read.
GetMetricsRLock(g) ==
    /\ procs[g].pc = "idle"
    /\ CanRLock(mu)
    /\ mu' = [mu EXCEPT !.readers[g] = @ + 1]
    /\ procs' = [procs EXCEPT ![g] =
                    [@ EXCEPT !.pc = "gm_last", !.op = "GetMetrics",
                              !.stats =
                                 [TotalQueries |-> metrics.queriesTotal,
                                  SuccessfulQueries |-> metrics.queriesSuccessful,
                                  FailedQueries |-> metrics.queriesFailed,
                                  TimeoutQueries |-> metrics.queriesTimeout,
                                  AverageExecTime |-> metrics.averageExecTime,
                                  LastExecutionTime |-> 0,
                                  CurrentTimeout |-> 0]]]
    /\ UNCHANGED metrics
    /\ UNCHANGED <<calls, routerVars, timeoutVars>>
    /\ UNCHANGED <<cacheVars, execVars, viewVars>>

\* GetMetrics: eg.getLastExecutionTime() takes the read lock a second time,
\* reads and releases it.
GetMetricsLast(g) ==
    /\ procs[g].pc = "gm_last"
    /\ CanRLock(mu)
    /\ procs' = [procs EXCEPT ![g].pc = "gm_return",
                    ![g].stats.LastExecutionTime = metrics.averageExecTime]
    /\ UNCHANGED <<mu, metrics>>
    /\ UNCHANGED <<calls, routerVars, timeoutVars>>
    /\ UNCHANGED <<cacheVars, execVars, viewVars>>

\* GetMetrics: eg.timeoutDuration(), then the deferred RUnlock and return.
GetMetricsReturn(g) ==
    /\ procs[g].pc = "gm_return"
    /\ mu' = [mu EXCEPT !.readers[g] = @ - 1]
    /\ procs' = [procs EXCEPT ![g].pc = "idle",
                              ![g].stats.CurrentTimeout = timeoutDuration]
    /\ UNCHANGED metrics
    /\ UNCHANGED <<calls, routerVars, timeoutVars>>
    /\ UNCHANGED <<cacheVars, execVars, viewVars>>

InitLock ==
    /\ mu = [w |-> "none", held |-> FALSE, readers |-> [g \in Goroutines |-> 0]]
    /\ procs = [g \in Goroutines |-> IdleProc]

NextMetrics ==
    \/ \E g \in Goroutines, op \in MarkOps : MarkBegin(g, op)
    \/ \E g \in Goroutines : MarkLocked(g)
    \/ \E g \in Goroutines : MarkStep(g)
    \/ \E g \in Goroutines : MarkUnlock(g)
    \/ \E g \in Goroutines : GetMetricsRLock(g)
    \/ \E g \in Goroutines : GetMetricsLast(g)
    \/ \E g \in Goroutines : GetMetricsReturn(g)

(***************************************************************************)
(*                            METRIC CACHE                                 *)
(* internal/service/metric/cache.go.  Strings are sequences of tokens, so  *)
(* that formatting two strings into one is a concatenation that can make   *)
(* different pairs meet.  SHA-256 is taken to be injective on the strings  *)
(* of the model.                                                           *)
(***************************************************************************)

MaxCacheOps == 4    \* Get/Set/Clear calls and clock advances explored

CacheDatasourceIDs == {<<"prom">>, <<"prom", ":", "job">>}
QueryExprs == {<<"up">>, <<"job", ":", "up">>}
Ranges == {0, Hour}

\* The keys callers use: two that differ only in the range, and two more
\* that differ from each other only in where the colon falls between the
\* datasource ID and the query.
MetricCacheKeys ==
    {k \in [DatasourceID : CacheDatasourceIDs, Query : QueryExprs,
            Range : Ranges] :
        \/ k.DatasourceID = <<"prom">> /\ k.Query = <<"up">>
        \/ k.Range = 0 /\ Len(k.DatasourceID) + Len(k.Query) = 4}

\* nil, as a []model.MetricSeries.
NilData == <<>>

\* The data of the n-th Set call made on the cache: every call stores
\* data of its own, so that a Get result tells which Set it came from.
SetData(n) == <<"series", n>>

CacheTTL == 30 * Second
SweepInterval == 30 * Second
MaxAges == {50, CacheTTL}
MaxSizes == {1, 100}
TickSteps == {10, 50, SweepInterval}

NoCache == [none |-> "cache"]
NoKey == [none |-> "key"]
NoEntry == [none |-> "entry"]
NoOp == [op |-> "none", key |-> NoKey, data |-> <<>>, at |-> 0,
         had |-> FALSE, old |-> <<>>]
NoGet == [none |-> "get"]

\* NewCacheKey: the SHA-256 it computes over the three parts is dropped;
\* the key is the struct of the three parts.
NewCacheKey(datasourceID, query, range) ==
    [DatasourceID |-> datasourceID, Query |-> query, Range |-> range]

\* fmt.Sprintf("%s:%s", a, b)
Sprintf(a, b) == a \o <<":">> \o b

\* fmt.Sprintf("%x", sha256.Sum256(s))
Sum256Hex(s) == <<"sha256">> \o s

\* The map key Get and Set compute from a MetricCacheKey.
cacheKey(key) == Sum256Hex(Sprintf(key.DatasourceID, key.Query))

Remove(m, k) == [x \in DOMAIN m \ {k} |-> m[x]]

\* Variant: an entry read exactly at its expiry time still counts as fresh.
NotAfter(t, u) == t <= u

\* time.Time.Before
Before(t, u) == t < u

\* MetricCache.Get at time t: the cache afterwards and the two results.
Get(mc, key, t) ==
    LET ck == cacheKey(key)
        exists == ck \in DOMAIN mc.entries
        entry == mc.entries[ck]
    IN IF exists /\ Before(t, entry.expires)
       THEN [mc |-> [mc EXCEPT !.entries[ck].hits = @ + 1, !.hits = @ + 1],
             data |-> entry.data, found |-> TRUE]
       ELSE [mc |-> [mc EXCEPT
                       !.entries = IF exists THEN Remove(@, ck) ELSE @,
                       !.misses = @ + 1],
             data |-> NilData, found |-> FALSE]

\* evictOldEntries at time t: drops the entries with t after expires.
evictOldEntries(mc, t) ==
    [mc EXCEPT !.entries =
        [k \in {x \in DOMAIN @ : ~(t > @[x].expires)} |-> @[k]]]

\* Variant: the sweep runs only once the map holds more than maxSize entries.
SweepsWhenOverMaxSize(mc) == Cardinality(DOMAIN mc.entries) > mc.maxSize
\* int64(len(mc.entries))*2 > mc.maxSize
SweepsBeforeInsert(mc) == Cardinality(DOMAIN mc.entries) * 2 > mc.maxSize

\* time.Now().Add(mc.maxAge)
Expires(mc, t) == t + mc.maxAge

\* Variant: an entry already under the map key is kept.
StoreIfAbsent(entries, ck, new) ==
    IF ck \in DOMAIN entries THEN entries ELSE Put(entries, ck, new)

\* mc.entries[cacheKey] = &cacheEntry{...}
Store(entries, ck, new) == Put(entries, ck, new)

\* MetricCache.Set at time t.  The field owner is not in the code: it
\* remembers the MetricCacheKey the entry was stored under.
Set(mc, key, data, t) ==
    LET swept == IF SweepsBeforeInsert(mc) THEN evictOldEntries(mc, t) ELSE mc
        new == [data |-> data, created |-> t, expires |-> Expires(mc, t),
                hits |-> 0, owner |-> key]
    IN [swept EXCEPT !.entries = Store(@, cacheKey(key), new)]

\* MetricCache.Clear.
Clear(mc) == [mc EXCEPT !.entries = EmptyMap, !.hits = 0, !.misses = 0]

Size(mc) == Cardinality(DOMAIN mc.entries)

\* NewMetricCache(maxSize, maxAge); the cleanup routine it starts has its
\* first ticker event one interval later.
NewMetricCache(maxSize, maxAge) ==
    /\ cache = NoCache
    /\ cache' = [entries |-> EmptyMap, maxSize |-> maxSize, maxAge |-> maxAge,
                 hits |-> 0, misses |-> 0]
    /\ nextSweep' = now + SweepInterval
    /\ UNCHANGED <<now, cacheOps, lastOp, lastGet>>
    /\ UNCHANGED <<routerVars, timeoutVars, gatherVars, lockVars, execVars,
                 viewVars>>

\* A caller's Get(key).  lastGet keeps what the call saw and returned.
CacheGet(key) ==
    /\ cache # NoCache
    /\ cacheOps < MaxCacheOps
    /\ LET r == Get(cache, key, now)
           ck == cacheKey(key)
           had == ck \in DOMAIN cache.entries
       IN /\ cache' = r.mc
          /\ lastGet' = [key |-> key, data |-> r.data, found |-> r.found,
                         at |-> now, had |-> had,
                         entry |-> IF had THEN cache.entries[ck] ELSE NoEntry,
                         before |-> cache, after |-> r.mc, prev |-> lastOp]
          /\ lastOp' = [op |-> "Get", key |-> key, data |-> r.data,
                        at |-> now, had |-> had, old |-> NilData]
    /\ cacheOps' = cacheOps + 1
    /\ UNCHANGED <<now, nextSweep>>
    /\ UNCHANGED <<routerVars, timeoutVars, gatherVars, lockVars, execVars,
                 viewVars>>

\* A caller's Set(key, data).
CacheSet(key, data) ==
    /\ cache # NoCache
    /\ cacheOps < MaxCacheOps
    /\ data = SetData(cacheOps + 1)
    /\ cache' = Set(cache, key, data, now)
    /\ LET ck == cacheKey(key)
           had == ck \in DOMAIN cache.entries
       IN lastOp' = [op |-> "Set", key |-> key, data |-> data, at |-> now,
                     had |-> had,
                     old |-> IF had THEN cache.entries[ck].data ELSE NilData]
    /\ cacheOps' = cacheOps + 1
    /\ UNCHANGED <<now, nextSweep, lastGet>>
    /\ UNCHANGED <<routerVars, timeoutVars, gatherVars, lockVars, execVars,
                 viewVars>>

\* A caller's Clear().
CacheClear ==
    /\ cache # NoCache
    /\ cacheOps < MaxCacheOps
    /\ cache' = Clear(cache)
    /\ lastOp' = [op |-> "Clear", key |-> NoKey, data |-> NilData, at |-> now,
                  had |-> FALSE, old |-> NilData]
    /\ cacheOps' = cacheOps + 1
    /\ UNCHANGED <<now, nextSweep, lastGet>>
    /\ UNCHANGED <<routerVars, timeoutVars, gatherVars, lockVars, execVars,
                 viewVars>>

\* cleanupRoutine: one ticker event, when it is due.
cleanupRoutine ==
    /\ cache # NoCache
    /\ now >= nextSweep
    /\ cache' = evictOldEntries(cache, now)
    /\ nextSweep' = nextSweep + SweepInterval
    /\ UNCHANGED <<now, cacheOps, lastOp, lastGet>>
    /\ UNCHANGED <<routerVars, timeoutVars, gatherVars, lockVars, execVars,
                 viewVars>>

\* The wall clock advances by d.
Tick(d) ==
    /\ cacheOps < MaxCacheOps
    /\ now' = now + d
    /\ cacheOps' = cacheOps + 1
    /\ UNCHANGED <<cache, nextSweep, lastOp, lastGet>>
    /\ UNCHANGED <<routerVars, timeoutVars, gatherVars, lockVars, execVars,
                 viewVars>>

InitCache ==
    /\ now = 0
    /\ nextSweep = 0
    /\ cache = NoCache
    /\ cacheOps = 0
    /\ lastOp = NoOp
    /\ lastGet = NoGet

NextCache ==
    \/ \E maxSize \in MaxSizes, maxAge \in MaxAges :
           NewMetricCache(maxSize, maxAge)
    \/ \E key \in MetricCacheKeys : CacheGet(key)
    \/ \E key \in MetricCacheKeys :
           \E data \in {SetData(cacheOps + 1)} : CacheSet(key, data)
    \/ CacheClear
    \/ cleanupRoutine
    \/ \E d \in TickSteps : Tick(d)

(***************************************************************************)
(*                           QUERY EXECUTOR                                *)
(* QueryExecutor.ExecuteQuery and executeWithRetry (the ID-aware variant). *)
(* The callers in QCallers are followed statement by statement; further    *)
(* ExecuteQuery calls on the same executor that were admitted and whose    *)
(* gatherer call has not returned yet are counted in others; each of them  *)
(* holds one slot.                                                         *)
(***************************************************************************)

MaxConcurrentCalls == 10
MaxRetransmission == 3

QCallers == {"q1", "q2"}
GathererIDs == {<<"prom">>}
ExecExprs == {<<"up">>, <<"job", ":", "up">>}
ExecTickSteps == {100, CacheTTL}

\* Sizes of the bursts of further calls: one slot left, or none.
BurstSizes == {MaxConcurrentCalls - 1, MaxConcurrentCalls}

NoExecutor == [none |-> "executor"]
NoSuccess == [none |-> "success"]

\* What one gatherer.GatherSingle call may return.
GathererErrs ==
    {ErrConnectionRefused, ErrDeadlineExceeded,
     Wrap(DeadlinePrefix("single"), ErrDeadlineExceeded)}
\* The data of a successful call is the data of the Set call it leads to.
GathererResults ==
    [data : {SetData(cacheOps + 1)}, err : {NoErr}]
        \cup [data : {NilData}, err : GathererErrs]

\* metric.isContextError (the executor's): the message is compared whole.
executorIsContextError(err) ==
    /\ err # NoErr
    /\ \/ err = ErrDeadlineExceeded
       \/ err = ErrCanceled

ZeroExecutionMetrics ==
    [totalQueries |-> 0, cacheHits |-> 0, errors |-> 0, successes |-> 0]

\* Variant: a cache hit is counted as a success.
RecordCacheHitAsSuccess(em) == Increment(em, <<"totalQueries", "successes">>)

RecordCacheHit(em) == Increment(em, <<"totalQueries", "cacheHits">>)
RecordError(em) == Increment(em, <<"totalQueries", "errors">>)
RecordSuccess(em) == Increment(em, <<"totalQueries", "successes">>)

ExecDelta(after, before) ==
    [f \in DOMAIN ZeroExecutionMetrics |-> after[f] - before[f]]
AddExecDelta(d1, d2) ==
    [f \in DOMAIN ZeroExecutionMetrics |-> d1[f] + d2[f]]

IdleQuery ==
    [pc |-> "idle", key |-> NoKey, attempt |-> 0, ctxErr |-> NoErr,
     results |-> <<>>, delta |-> ZeroExecutionMetrics, data |-> NilData,
     err |-> NoErr, exit |-> "none", acquired |-> 0, released |-> 0,
     sets |-> 0, enterAt |-> 0, seen |-> NoSuccess, cached |-> NoEntry,
     full |-> FALSE]

\* Variant: a send on the semaphore channel never blocks.
CanAcquireAlways(held) == TRUE

\* qe.semaphore <- struct{}{} can proceed: the channel buffer has room.
CanAcquire(held) == held < MaxConcurrentCalls

RateLimitPrefix ==
    <<"query", "execution", "timeout", "waiting", "for", "rate", "limit">>

\* Variant: the context's error is returned as it is.
RateLimitErrorBare(ctxErr) == ctxErr

\* fmt.Errorf("query execution timeout waiting for rate limit: %w", ...)
RateLimitError(ctxErr) == Wrap(RateLimitPrefix, ctxErr)

\* Variant: a result is not written back.
CacheResultSkipped(mc, key, data, t) == mc

\* qe.cache.Set(cacheKey, result)
CacheResult(mc, key, data, t) == Set(mc, key, data, t)
AttemptsPrefix ==
    <<"query", "failed", "after", ToString(MaxRetransmission), "attempts">>

\* NewQueryExecutor(cache)
NewQueryExecutor ==
    /\ cache # NoCache
    /\ qe = NoExecutor
    /\ qe' = [semaphore |-> 0, metrics |-> ZeroExecutionMetrics]
    /\ UNCHANGED <<qcalls, others, lastSuccess>>
    /\ UNCHANGED <<cacheVars, routerVars, timeoutVars, gatherVars, lockVars,
                 viewVars>>

\* ExecuteQuery up to the cache lookup: a hit records the cache hit and
\* returns; a miss derives the 5s context and goes on to the semaphore.
ExecuteQuery(p, id, expr) ==
    /\ qe # NoExecutor
    /\ qcalls[p].pc \in {"idle", "returned"}
    /\ cacheOps < MaxCacheOps
    /\ cacheOps' = cacheOps + 1
    /\ LET key == NewCacheKey(id, expr, 0)
           r == Get(cache, key, now)
           ck == cacheKey(key)
           entered == [IdleQuery EXCEPT
                          !.key = key, !.enterAt = now, !.seen = lastSuccess,
                          !.cached = IF ck \in DOMAIN cache.entries
                                     THEN cache.entries[ck] ELSE NoEntry]
       IN /\ cache' = r.mc
          /\ IF r.found
             THEN /\ qe' = [qe EXCEPT !.metrics = RecordCacheHit(@)]
                  /\ qcalls' = [qcalls EXCEPT ![p] =
                        [entered EXCEPT
                            !.pc = "returned", !.exit = "hit",
                            !.data = r.data,
                            !.delta = ExecDelta(RecordCacheHit(qe.metrics),
                                                qe.metrics)]]
             ELSE /\ qe' = qe
                  /\ qcalls' = [qcalls EXCEPT ![p] =
                        [entered EXCEPT !.pc = "admission"]]
    /\ UNCHANGED <<others, lastSuccess>>
    /\ UNCHANGED <<now, nextSweep, lastOp, lastGet>>
    /\ UNCHANGED <<routerVars, timeoutVars, gatherVars, lockVars, viewVars>>

\* The call's context ends: ctx.Err() becomes e.
QCtxDone(p, e) ==
    /\ qcalls[p].pc \in {"admission", "backoff", "call"}
    /\ qcalls[p].ctxErr = NoErr
    /\ qcalls' = [qcalls EXCEPT ![p].ctxErr = e]
    /\ UNCHANGED <<qe, others, lastSuccess>>
    /\ UNCHANGED <<cacheVars, routerVars, timeoutVars, gatherVars, lockVars,
                 viewVars>>

\* select: case qe.semaphore <- struct{}{}: the slot is taken; then the
\* first iteration's ctx.Err() check, which returns the context's error or
\* lets the first gatherer call start.
Admit(p) ==
    /\ qcalls[p].pc = "admission"
    /\ CanAcquire(qe.semaphore)
    /\ IF qcalls[p].ctxErr # NoErr
       THEN /\ qe' = [qe EXCEPT !.metrics = RecordError(@)]
            /\ qcalls' = [qcalls EXCEPT
                   ![p].pc = "returned", ![p].exit = "error",
                   ![p].err = qcalls[p].ctxErr,
                   ![p].acquired = @ + 1, ![p].released = @ + 1,
                   ![p].delta = AddExecDelta(@,
                       ExecDelta(RecordError(qe.metrics), qe.metrics))]
       ELSE /\ qe' = [qe EXCEPT !.semaphore = @ + 1]
            /\ qcalls' = [qcalls EXCEPT ![p].pc = "call",
                                        ![p].acquired = @ + 1]
    /\ UNCHANGED <<others, lastSuccess>>
    /\ UNCHANGED <<cacheVars, routerVars, timeoutVars, gatherVars, lockVars,
                 viewVars>>

\* select: case <-ctx.Done(): return the rate-limit timeout error.
AdmitCtxDone(p) ==
    /\ qcalls[p].pc = "admission"
    /\ qcalls[p].ctxErr # NoErr
    /\ qcalls' = [qcalls EXCEPT
           ![p].pc = "returned", ![p].exit = "ratelimit",
           ![p].err = RateLimitError(qcalls[p].ctxErr),
           ![p].full = ~CanAcquire(qe.semaphore)]
    /\ UNCHANGED <<qe, others, lastSuccess>>
    /\ UNCHANGED <<cacheVars, routerVars, timeoutVars, gatherVars, lockVars,
                 viewVars>>

\* executeWithRetry returned err to ExecuteQuery: RecordError, return, and
\* the deferred release of the slot.
FinishError(p, err, results) ==
    /\ qe' = [qe EXCEPT !.metrics = RecordError(@), !.semaphore = @ - 1]
    /\ qcalls' = [qcalls EXCEPT
           ![p].pc = "returned", ![p].exit = "error", ![p].err = err,
           ![p].results = results, ![p].released = @ + 1,
           ![p].delta = AddExecDelta(@, ExecDelta(RecordError(qe.metrics),
                                                  qe.metrics))]
    /\ UNCHANGED <<cache, cacheOps, lastSuccess>>

\* executeWithRetry returned a result: cache.Set, RecordSuccess, return,
\* and the deferred release of the slot.
FinishSuccess(p, data, results) ==
    /\ cache' = CacheResult(cache, qcalls[p].key, data, now)
    /\ cacheOps' = cacheOps + 1
    /\ qe' = [qe EXCEPT !.metrics = RecordSuccess(@), !.semaphore = @ - 1]
    /\ qcalls' = [qcalls EXCEPT
           ![p].pc = "returned", ![p].exit = "success", ![p].data = data,
           ![p].results = results, ![p].released = @ + 1,
           ![p].sets = @ + 1,
           ![p].delta = AddExecDelta(@, ExecDelta(RecordSuccess(qe.metrics),
                                                  qe.metrics))]
    /\ lastSuccess' = [key |-> qcalls[p].key, data |-> data, at |-> now]

\* Backoff select: case <-time.After(sleepTime)
QBackoffElapsed(p) ==
    /\ qcalls[p].pc = "backoff"
    /\ qcalls' = [qcalls EXCEPT ![p].pc = "call"]
    /\ UNCHANGED <<qe, others, lastSuccess>>
    /\ UNCHANGED <<cacheVars, routerVars, timeoutVars, gatherVars, lockVars,
                 viewVars>>

\* Backoff select: case <-ctx.Done(): return nil, ctx.Err()
QBackoffCtxDone(p) ==
    /\ qcalls[p].pc = "backoff"
    /\ qcalls[p].ctxErr # NoErr
    /\ FinishError(p, qcalls[p].ctxErr, qcalls[p].results)
    /\ UNCHANGED others
    /\ UNCHANGED <<now, nextSweep, lastOp, lastGet>>
    /\ UNCHANGED <<routerVars, timeoutVars, gatherVars, lockVars, viewVars>>

\* Variant: one attempt more than the budget.
AfterGathererOneMore(res, attempt, ctxErr) ==
    IF res.err = NoErr THEN [do |-> "success", err |-> NoErr]
    ELSE IF executorIsContextError(res.err) THEN [do |-> "error", err |-> res.err]
    ELSE IF ctxErr # NoErr THEN [do |-> "error", err |-> ctxErr]
    ELSE IF attempt < MaxRetransmission THEN [do |-> "loop", err |-> NoErr]
    ELSE [do |-> "error", err |-> Wrap(AttemptsPrefix, res.err)]

\* What executeWithRetry does once gatherer.GatherSingle has returned res
\* in iteration attempt: return the result, return an error, or go on to
\* the next iteration (whose ctx.Err() check repeats the one just made)
\* and its backoff wait.
AfterGatherer(res, attempt, ctxErr) ==
    IF res.err = NoErr THEN [do |-> "success", err |-> NoErr]
    ELSE IF executorIsContextError(res.err) THEN [do |-> "error", err |-> res.err]
    ELSE IF ctxErr # NoErr THEN [do |-> "error", err |-> ctxErr]
    ELSE IF attempt + 1 < MaxRetransmission THEN [do |-> "loop", err |-> NoErr]
    ELSE [do |-> "error", err |-> Wrap(AttemptsPrefix, res.err)]

\* gatherer.GatherSingle returns res.
GathererReturns(p, res) ==
    /\ qcalls[p].pc = "call"
    /\ LET results == Append(qcalls[p].results, res)
           next == AfterGatherer(res, qcalls[p].attempt, qcalls[p].ctxErr)
       IN CASE next.do = "success" -> FinishSuccess(p, res.data, results)
            [] next.do = "error" -> FinishError(p, next.err, results)
            [] next.do = "loop" ->
                 /\ qcalls' = [qcalls EXCEPT ![p].pc = "backoff",
                                             ![p].attempt = @ + 1,
                                             ![p].results = results]
                 /\ UNCHANGED <<qe, cache, cacheOps, lastSuccess>>
    /\ UNCHANGED others
    /\ UNCHANGED <<now, nextSweep, lastOp, lastGet>>
    /\ UNCHANGED <<routerVars, timeoutVars, gatherVars, lockVars, viewVars>>

\* Variant: the slot is given back by a plain statement after the call,
\* which a panic skips.
ReleaseSkippedByPanic(held) == held
\* defer func() { <-qe.semaphore }(): runs while the panic unwinds.
DeferredRelease(held) == held - 1

\* gatherer.GatherSingle panics: ExecuteQuery has no recover, so the panic
\* leaves it through its deferred calls and goes on to the caller.
GathererPanics(p) ==
    /\ qcalls[p].pc = "call"
    /\ LET held == DeferredRelease(qe.semaphore)
       IN /\ qe' = [qe EXCEPT !.semaphore = held]
          /\ qcalls' = [qcalls EXCEPT
                 ![p].pc = "panicked", ![p].exit = "panic",
                 ![p].released = @ + (qe.semaphore - held)]
    /\ UNCHANGED <<others, lastSuccess>>
    /\ UNCHANGED <<cacheVars, routerVars, timeoutVars, gatherVars, lockVars,
                 viewVars>>

\* A burst of k further ExecuteQuery calls arrives on the idle executor;
\* each takes a slot, one after another, and is still in flight.
OthersAdmitted(k) ==
    /\ qe # NoExecutor
    /\ others = 0
    /\ \A i \in 0..(k - 1) : CanAcquire(qe.semaphore + i)
    /\ qe' = [qe EXCEPT !.semaphore = @ + k]
    /\ others' = k
    /\ UNCHANGED <<qcalls, lastSuccess>>
    /\ UNCHANGED <<cacheVars, routerVars, timeoutVars, gatherVars, lockVars,
                 viewVars>>

InitExecutor ==
    /\ qe = NoExecutor
    /\ qcalls = [p \in QCallers |-> IdleQuery]
    /\ others = 0
    /\ lastSuccess = NoSuccess

\* The steps of the callers' ExecuteQuery calls.
ExecuteQuerySteps ==
    \/ \E p \in QCallers, id \in GathererIDs, expr \in ExecExprs :
           ExecuteQuery(p, id, expr)
    \/ \E p \in QCallers : QCtxDone(p, ErrDeadlineExceeded)
    \/ \E p \in QCallers : Admit(p)
    \/ \E p \in QCallers : AdmitCtxDone(p)
    \/ \E p \in QCallers : QBackoffElapsed(p)
    \/ \E p \in QCallers : QBackoffCtxDone(p)
    \/ \E p \in QCallers, res \in GathererResults : GathererReturns(p, res)

\* The executor with its cache and the clock.  The clock is followed from
\* the first cached entry on: before that no time is compared.
NextExecutor ==
    \/ NewMetricCache(100, CacheTTL)
    \/ NewQueryExecutor
    \/ ExecuteQuerySteps
    \/ /\ cache # NoCache
       /\ DOMAIN cache.entries # {}
       /\ \E d \in ExecTickSteps : Tick(d)
    \/ cleanupRoutine

\* The executor under load: bursts of further calls contend for the slots.
NextAdmission ==
    \/ NewMetricCache(100, CacheTTL)
    \/ NewQueryExecutor
    \/ ExecuteQuerySteps
    \/ \E k \in BurstSizes : OthersAdmitted(k)

\* The executor under load with gatherers that may panic.
NextSlots ==
    \/ NewMetricCache(100, CacheTTL)
    \/ NewQueryExecutor
    \/ ExecuteQuerySteps
    \/ OthersAdmitted(MaxConcurrentCalls - 1)
    \/ \E p \in QCallers : GathererPanics(p)

(***************************************************************************)
(*          PARALLEL QUERY EXECUTOR: ExecuteWidgetQueries                  *)
(***************************************************************************)

\* Widgets a batch holds at most.
MaxWidgets == 2

WidgetIDs == {"w1", "w2", "w3"}
\* WidgetData: the query of a widget is fixed by its ID here; two widgets of
\* a batch may carry the same ID.
WidgetDataOf(id) == [ID |-> id, Query |-> <<"expr", id>>]
WidgetBatches == SeqsUpTo({WidgetDataOf(id) : id \in WidgetIDs}, MaxWidgets)

NoBatch == [none |-> TRUE]
NoResult == [none |-> TRUE]
NoPanic == "none"

\* What ExecuteQuery hands back for widget w: its metrics, or an error.
QueryOutcomes(w) ==
    {[Metrics |-> <<"metrics">> \o w.Query, Error |-> NoErr],
     [Metrics |-> NilData, Error |-> ErrConnectionRefused],
     [Metrics |-> NilData, Error |-> ErrDeadlineExceeded]}

AllQueryOutcomes == UNION {QueryOutcomes(WidgetDataOf(id)) : id \in WidgetIDs}

\* WidgetResult{ID: w.ID, Metrics: metrics, Error: err}; worker records the
\* goroutine that built it.
WidgetResult(w, out, worker) ==
    [ID |-> w.ID, Metrics |-> out.Metrics, Error |-> out.Error,
     worker |-> worker]

\* Variant: the goroutine reads the loop variable instead of its argument.
WorkerWidgetLoopVar(widgets, i) == widgets[Len(widgets)]
\* go func(w WidgetData) {...}(widget): each goroutine gets its own widget.
WorkerWidget(widgets, i) == widgets[i]

\* Variant: the channel is closed without waiting for the workers.
wgWaitSkipped(wg) == TRUE
\* wg.Wait() returns once the counter is zero.
wgWait(wg) == wg = 0

\* results[result.ID] = result
PutResult(results, result) ==
    [id \in DOMAIN results \cup {result.ID} |->
        IF id = result.ID THEN result ELSE results[id]]

\* ExecuteWidgetQueries: the map and the channel are made, one goroutine
\* per widget and the closing goroutine are started, the caller starts to
\* range over the channel.  done: the parent context has ended already.
ExecuteWidgetQueries(widgets, done) ==
    /\ batch = NoBatch
    /\ batch' = [widgets |-> widgets,
                 ctxDone |-> done,
                 doneAtStart |-> done,
                 workers |-> [i \in 1..Len(widgets) |->
                                 [pc |-> "query", result |-> NoResult,
                                  sent |-> FALSE, dropped |-> FALSE]],
                 wg |-> Len(widgets),
                 resultsCh |-> <<>>,
                 capacity |-> Len(widgets),
                 closed |-> FALSE,
                 closes |-> 0,
                 closer |-> "wait",
                 results |-> <<>>,
                 returned |-> FALSE,
                 panic |-> NoPanic]
    /\ UNCHANGED <<engineVars, app, dash, widget, threadVars, raceVars>>

\* The parent context ends (cancelled or past its deadline).
BatchCtxDone ==
    /\ batch # NoBatch
    /\ ~batch.returned
    /\ ~batch.ctxDone
    /\ batch' = [batch EXCEPT !.ctxDone = TRUE]
    /\ UNCHANGED <<engineVars, app, dash, widget, threadVars, raceVars>>

\* A worker's ExecuteQuery returns; the worker builds its result.
WorkerQueryReturns(i, out) ==
    /\ batch # NoBatch
    /\ batch.panic = NoPanic
    /\ i \in DOMAIN batch.workers
    /\ batch.workers[i].pc = "query"
    /\ out \in QueryOutcomes(WorkerWidget(batch.widgets, i))
    /\ batch' = [batch EXCEPT
                    !.workers[i].pc = "select",
                    !.workers[i].result =
                        WidgetResult(WorkerWidget(batch.widgets, i), out, i)]
    /\ UNCHANGED <<engineVars, app, dash, widget, threadVars, raceVars>>

\* select: case resultsCh <- result.  The deferred cancel and wg.Done run.
WorkerSend(i) ==
    /\ batch # NoBatch
    /\ batch.panic = NoPanic
    /\ i \in DOMAIN batch.workers
    /\ batch.workers[i].pc = "select"
    /\ \/ /\ batch.closed
          /\ batch' = [batch EXCEPT !.panic = "send on closed channel"]
       \/ /\ ~batch.closed
          /\ Len(batch.resultsCh) < batch.capacity
          /\ batch' = [batch EXCEPT
                          !.resultsCh = Append(@, batch.workers[i].result),
                          !.workers[i].pc = "done",
                          !.workers[i].sent = TRUE,
                          !.wg = @ - 1]
    /\ UNCHANGED <<engineVars, app, dash, widget, threadVars, raceVars>>

\* select: case <-ctx.Done(): return.  The deferred cancel and wg.Done run.
WorkerDrop(i) ==
    /\ batch # NoBatch
    /\ batch.panic = NoPanic
    /\ i \in DOMAIN batch.workers
    /\ batch.workers[i].pc = "select"
    /\ batch.ctxDone
    /\ batch' = [batch EXCEPT !.workers[i].pc = "done",
                              !.workers[i].dropped = TRUE,
                              !.wg = @ - 1]
    /\ UNCHANGED <<engineVars, app, dash, widget, threadVars, raceVars>>

\* go func() { wg.Wait(); close(resultsCh) }()
CloseResults ==
    /\ batch # NoBatch
    /\ batch.panic = NoPanic
    /\ batch.closer = "wait"
    /\ wgWait(batch.wg)
    /\ batch' = [batch EXCEPT
                    !.closer = "done",
                    !.closed = TRUE,
                    !.closes = @ + 1,
                    !.panic = IF batch.closed THEN "close of closed channel"
                              ELSE @]
    /\ UNCHANGED <<engineVars, app, dash, widget, threadVars, raceVars>>

\* for result := range resultsCh { results[result.ID] = result }
CollectResult ==
    /\ batch # NoBatch
    /\ batch.panic = NoPanic
    /\ ~batch.returned
    /\ batch.resultsCh # <<>>
    /\ batch' = [batch EXCEPT
                    !.resultsCh = Tail(@),
                    !.results = PutResult(@, Head(batch.resultsCh))]
    /\ UNCHANGED <<engineVars, app, dash, widget, threadVars, raceVars>>

\* The range loop ends on the closed, drained channel: return results.
BatchReturns ==
    /\ batch # NoBatch
    /\ batch.panic = NoPanic
    /\ ~batch.returned
    /\ batch.resultsCh = <<>>
    /\ batch.closed
    /\ batch' = [batch EXCEPT !.returned = TRUE]
    /\ UNCHANGED <<engineVars, app, dash, widget, threadVars, raceVars>>

InitBatch == batch = NoBatch

\* The steps the goroutines of a call take by themselves.
BatchProgress ==
    \/ \E i \in 1..MaxWidgets, out \in AllQueryOutcomes :
          WorkerQueryReturns(i, out)
    \/ \E i \in 1..MaxWidgets : WorkerSend(i)
    \/ \E i \in 1..MaxWidgets : WorkerDrop(i)
    \/ CloseResults
    \/ CollectResult
    \/ BatchReturns

NextBatch ==
    \/ \E ws \in WidgetBatches, done \in BOOLEAN : ExecuteWidgetQueries(ws, done)
    \/ BatchCtxDone
    \/ BatchProgress

(***************************************************************************)
(*                       VIEW: App.Run AND App.sync                        *)
(***************************************************************************)

\* Ticks the refresh ticker fires at most.
MaxTicks == 2

NoApp == [none |-> TRUE]
NoPanicValue == "none"

\* The syncer handed to NewApp: nil, or a syncer.
Syncers == {"nil", "syncer"}
\* What building the request does: it returns, or something in it panics.
RequestOutcomes == {"request", "panic"}
\* What syncer.Sync does: returns nil, an error, an error after the pass's
\* eight seconds have run out, or panics.
SyncerOutcomes == {"nil", "error", "timeout", "panic"}

\* The message App.sync logs for an error of syncer.Sync.
SyncErrorLog(out) ==
    IF out = "timeout" THEN "app sync timeout after 8s"
    ELSE "app level error, syncer failed sync"

\* Variant: App.sync has no deferred recover.
syncRecoverMissing(r) == r
\* The deferred recover of App.sync: nothing propagates to the caller.
syncRecover(r) == NoPanicValue

\* Variant: run starts its loop without the first sync.
runWithoutFirstSync(a) == [a EXCEPT !.pc = "select", !.tickerMade = TRUE]
\* App.run: a.sync() is called first.
run(a) == [a EXCEPT !.pc = "pass", !.stage = "begin", !.started = @ + 1]

\* a.sync() returns to run (or a panic r propagates out of it): after the
\* first pass the ticker is made and the loop is entered.
syncReturns(a, outcome, r, logged) ==
    IF syncRecover(r) # NoPanicValue
    THEN [a EXCEPT !.pc = "crashed", !.stage = "none",
                   !.lastOutcome = outcome]
    ELSE [a EXCEPT !.pc = "select", !.stage = "none",
                   !.finished = @ + 1,
                   !.failed = IF outcome = "nil" THEN @ ELSE @ + 1,
                   !.lastOutcome = outcome,
                   !.log = IF logged = "" THEN @ ELSE Append(@, logged),
                   !.tickerMade = TRUE]

\* Goroutines that call Run on the one App.
RunCallers == {"r1", "r2"}
ErrAlreadyRunning == <<"already running">>
IdleRun == [pc |-> "idle", ret |-> NoErr, waited |-> FALSE]

\* Variant: Run does not look at the flag.
alreadyRunningUnchecked(a) == FALSE
\* if a.running { return errors.New("already running") }
alreadyRunning(a) == a.running

\* NewApp.  The fields mu, callers and ran follow the Run calls: a.mu, each
\* caller's position and result, and the callers whose Run went on to run.
NewApp(syncer) ==
    /\ app = NoApp
    /\ app' = [syncer |-> syncer, running |-> FALSE, pc |-> "new",
               stage |-> "none", ctxDone |-> FALSE, tickerMade |-> FALSE,
               tickPending |-> 0, ticksFired |-> 0, ticksReceived |-> 0,
               started |-> 0, finished |-> 0, failed |-> 0,
               lastOutcome |-> "none",
               log |-> <<>>, ret |-> NoErr,
               mu |-> FALSE, callers |-> [c \in RunCallers |-> IdleRun],
               ran |-> {}]
    /\ UNCHANGED <<engineVars, batch, dash, widget, threadVars, raceVars>>

\* Caller c calls App.Run and arrives at a.mu.Lock(); it waits there while
\* another Run call holds the mutex.
RunCalled(c) ==
    /\ app # NoApp
    /\ app.callers[c].pc = "idle"
    /\ app' = [app EXCEPT !.callers[c].pc = "lock",
                          !.callers[c].waited = app.mu]
    /\ UNCHANGED <<engineVars, batch, dash, widget, threadVars, raceVars>>

\* App.Run from a.mu.Lock() on: with the flag set it returns the error (and
\* the deferred Unlock runs); otherwise the flag is set and run starts, the
\* mutex staying held until run returns.
\* done: the context handed to Run has ended already.
Run(c, done) ==
    /\ app # NoApp
    /\ app.callers[c].pc = "lock"
    /\ ~app.mu
    /\ app' = IF alreadyRunning(app)
              THEN [app EXCEPT !.callers[c].pc = "returned",
                               !.callers[c].ret = ErrAlreadyRunning]
              ELSE run([app EXCEPT !.running = TRUE, !.ctxDone = done,
                                   !.mu = TRUE, !.ran = @ \cup {c},
                                   !.callers[c].pc = "running"])
    /\ UNCHANGED <<engineVars, batch, dash, widget, threadVars, raceVars>>

\* App.sync up to the call of the syncer: the nil check of the syncer and
\* the building of the request.
SyncBuildsRequest(out) ==
    /\ app # NoApp
    /\ app.pc = "pass"
    /\ app.stage = "begin"
    /\ app' = IF app.syncer = "nil"
              THEN syncReturns(app, "nil syncer", NoPanicValue,
                               "syncer is nil, cannot sync")
              ELSE IF out = "panic"
              THEN syncReturns(app, "request panic", "panic",
                               "app sync panic recovered")
              ELSE [app EXCEPT !.stage = "syncer"]
    /\ UNCHANGED <<engineVars, batch, dash, widget, threadVars, raceVars>>

\* a.syncer.Sync(ctx, r) returns or panics; App.sync logs and returns.
SyncerReturns(out) ==
    /\ app # NoApp
    /\ app.pc = "pass"
    /\ app.stage = "syncer"
    /\ app' = CASE out = "nil" -> syncReturns(app, "nil", NoPanicValue, "")
                [] out = "panic" ->
                      syncReturns(app, "panic", "panic",
                                  "app sync panic recovered")
                [] OTHER ->
                      syncReturns(app, out, NoPanicValue, SyncErrorLog(out))
    /\ UNCHANGED <<engineVars, batch, dash, widget, threadVars, raceVars>>

\* The ticker fires: its channel holds one tick, a further one is dropped.
TickerFires ==
    /\ app # NoApp
    /\ app.tickerMade
    /\ app.pc \in {"pass", "select"}
    /\ app.ticksFired < MaxTicks
    /\ app' = [app EXCEPT !.ticksFired = @ + 1, !.tickPending = 1]
    /\ UNCHANGED <<engineVars, batch, dash, widget, threadVars, raceVars>>

\* The context handed to Run is cancelled.
AppCtxDone ==
    /\ app # NoApp
    /\ app.pc \in {"pass", "select"}
    /\ ~app.ctxDone
    /\ app' = [app EXCEPT !.ctxDone = TRUE]
    /\ UNCHANGED <<engineVars, batch, dash, widget, threadVars, raceVars>>

\* select: case <-tk.C, then a.sync().
SelectTick ==
    /\ app # NoApp
    /\ app.pc = "select"
    /\ app.tickPending = 1
    /\ app' = [app EXCEPT !.tickPending = 0, !.ticksReceived = @ + 1,
                          !.pc = "pass", !.stage = "begin",
                          !.started = @ + 1]
    /\ UNCHANGED <<engineVars, batch, dash, widget, threadVars, raceVars>>

\* select: case <-ctx.Done(): return nil; Run returns it and its deferred
\* a.mu.Unlock() runs.
SelectDone ==
    /\ app # NoApp
    /\ app.pc = "select"
    /\ app.ctxDone
    /\ app' = [app EXCEPT
                  !.pc = "returned", !.ret = NoErr, !.mu = FALSE,
                  !.callers = [c \in RunCallers |->
                                 IF @[c].pc = "running"
                                 THEN [@[c] EXCEPT !.pc = "returned"]
                                 ELSE @[c]]]
    /\ UNCHANGED <<engineVars, batch, dash, widget, threadVars, raceVars>>

InitApp == app = NoApp

NextApp ==
    \/ \E s \in Syncers : NewApp(s)
    \/ \E c \in RunCallers : RunCalled(c)
    \/ \E c \in RunCallers, done \in BOOLEAN : Run(c, done)
    \/ \E out \in RequestOutcomes : SyncBuildsRequest(out)
    \/ \E out \in SyncerOutcomes : SyncerReturns(out)
    \/ TickerFires
    \/ AppCtxDone
    \/ SelectTick
    \/ SelectDone

(***************************************************************************)
(*                          VIEW: dashboard.Sync                           *)
(***************************************************************************)

\* Widgets a dashboard holds at most.
MaxDashWidgets == 2

NoDashboard == [none |-> TRUE]

\* An entry of d.widgets: a nil Syncer, or a widget.
DashWidgets == {"nil", "widget"}
DashWidgetLists == SeqsUpTo(DashWidgets, MaxDashWidgets)
\* What a widget's Sync does: returns nil, returns an error, or panics.
WidgetSyncOutcomes == {"nil", "error", "panic"}
\* widgetCtx.Err() once the three seconds have passed or the parent context
\* was cancelled.
DashCtxErrs == {"deadline", "canceled"}

\* The error a task reports for an error of widget.Sync.
TaskError(ctxErr) ==
    CASE ctxErr = "deadline" -> "widget sync timeout"
      [] ctxErr = "canceled" -> "widget sync canceled"
      [] OTHER -> "error syncing widget"

\* Variant: the task has no deferred recover.
taskRecoverMissing(r) == r
\* The deferred recover of a task: the panic ends there.
taskRecover(r) == NoPanicValue

\* Variant: Sync does not wait for its tasks.
dashWaitSkipped(wg) == TRUE
\* wg.Wait()
dashWait(wg) == wg = 0

\* Variant: the channel has no buffer.
errorChanUnbuffered(widgets) == 0
\* make(chan error, len(d.widgets))
errorChanCapacity(widgets) == Len(widgets)

\* errorChan <- err by task i, then the task ends (wg.Done is deferred).
\* The send proceeds while the channel has room and waits otherwise; a send
\* on the closed channel panics.
TaskReports(d, i, msg) ==
    IF d.closed
    THEN [d EXCEPT !.pc = "crashed"]
    ELSE IF Len(d.errorChan) < d.capacity
    THEN [d EXCEPT !.errorChan = Append(@, [from |-> i, msg |-> msg]),
                   !.tasks[i].pc = "done",
                   !.tasks[i].reported = @ + 1,
                   !.wg = @ - 1]
    ELSE [d EXCEPT !.tasks[i].pc = "blocked"]

\* The task ends without a report.
TaskEnds(d, i) == [d EXCEPT !.tasks[i].pc = "done", !.wg = @ - 1]

\* NewDashboard: the dashboard with its widgets.
NewDashboard(widgets) ==
    /\ dash = NoDashboard
    /\ dash' = [widgets |-> widgets, pc |-> "idle", ctxErr |-> "none",
                tasks |-> <<>>, wg |-> 0, errorChan |-> <<>>,
                capacity |-> 0, closed |-> FALSE, logged |-> <<>>,
                ret |-> NoErr]
    /\ UNCHANGED <<engineVars, batch, app, widget, threadVars, raceVars>>

\* dashboard.Sync: the context, the channel, one goroutine per widget; the
\* caller waits in wg.Wait().
DashboardSync ==
    /\ dash # NoDashboard
    /\ dash.pc = "idle"
    /\ dash' = [dash EXCEPT
                  !.pc = "wait",
                  !.tasks = [i \in 1..Len(dash.widgets) |->
                                [pc |-> "spawned", invoked |-> FALSE,
                                 outcome |-> "none", reported |-> 0]],
                  !.wg = Len(dash.widgets),
                  !.capacity = errorChanCapacity(dash.widgets)]
    /\ UNCHANGED <<engineVars, batch, app, widget, threadVars, raceVars>>

\* widgetCtx ends: its deadline passes or the parent is cancelled.
DashCtxDone(e) ==
    /\ dash # NoDashboard
    /\ dash.pc = "wait"
    /\ dash.ctxErr = "none"
    /\ dash' = [dash EXCEPT !.ctxErr = e]
    /\ UNCHANGED <<engineVars, batch, app, widget, threadVars, raceVars>>

\* A task starts: a nil widget is reported, any other widget's Sync is
\* called.
TaskStarts(i) ==
    /\ dash # NoDashboard
    /\ dash.pc \in {"wait", "drain", "returned"}
    /\ i \in DOMAIN dash.tasks
    /\ dash.tasks[i].pc = "spawned"
    /\ dash' = IF dash.widgets[i] = "nil"
               THEN TaskReports([dash EXCEPT !.tasks[i].outcome = "nil widget"],
                                i, "widget is nil, skipping sync")
               ELSE [dash EXCEPT !.tasks[i].pc = "syncing",
                                 !.tasks[i].invoked = TRUE]
    /\ UNCHANGED <<engineVars, batch, app, widget, threadVars, raceVars>>

\* widget.Sync returns or panics; the task reports and ends.
WidgetSyncReturns(i, out) ==
    /\ dash # NoDashboard
    /\ dash.pc \in {"wait", "drain", "returned"}
    /\ i \in DOMAIN dash.tasks
    /\ dash.tasks[i].pc = "syncing"
    /\ LET d == [dash EXCEPT !.tasks[i].outcome = out]
       IN dash' =
            CASE out = "nil" -> TaskEnds(d, i)
              [] out = "error" -> TaskReports(d, i, TaskError(dash.ctxErr))
              [] out = "panic" ->
                    IF taskRecover("panic") = NoPanicValue
                    THEN TaskReports(d, i, "widget sync panic recovered")
                    ELSE [d EXCEPT !.pc = "crashed"]
    /\ UNCHANGED <<engineVars, batch, app, widget, threadVars, raceVars>>

\* wg.Wait() returns; close(errorChan).
DashWaitReturns ==
    /\ dash # NoDashboard
    /\ dash.pc = "wait"
    /\ dashWait(dash.wg)
    /\ dash' = [dash EXCEPT !.pc = "drain", !.closed = TRUE]
    /\ UNCHANGED <<engineVars, batch, app, widget, threadVars, raceVars>>

\* for err := range errorChan { d.logger.Errorf(err.Error()) }
DashLogsError ==
    /\ dash # NoDashboard
    /\ dash.pc = "drain"
    /\ dash.errorChan # <<>>
    /\ dash' = [dash EXCEPT !.errorChan = Tail(@),
                            !.logged = Append(@, Head(dash.errorChan))]
    /\ UNCHANGED <<engineVars, batch, app, widget, threadVars, raceVars>>

\* return nil; the deferred cancel ends widgetCtx.
DashboardSyncReturns ==
    /\ dash # NoDashboard
    /\ dash.pc = "drain"
    /\ dash.errorChan = <<>>
    /\ dash' = [dash EXCEPT !.pc = "returned", !.ret = NoErr,
                            !.ctxErr = IF @ = "none" THEN "canceled" ELSE @]
    /\ UNCHANGED <<engineVars, batch, app, widget, threadVars, raceVars>>

InitDashboard == dash = NoDashboard

NextDashboard ==
    \/ \E ws \in DashWidgetLists : NewDashboard(ws)
    \/ DashboardSync
    \/ \E e \in DashCtxErrs : DashCtxDone(e)
    \/ \E i \in 1..MaxDashWidgets : TaskStarts(i)
    \/ \E i \in 1..MaxDashWidgets, out \in WidgetSyncOutcomes :
          WidgetSyncReturns(i, out)
    \/ DashWaitReturns
    \/ DashLogsError
    \/ DashboardSyncReturns

(***************************************************************************)
(*                 VIEW: THE GAUGE AND SINGLESTAT WIDGETS                  *)
(***************************************************************************)

\* Sync calls made on the widget at most.
MaxSyncs == 3

\* Goroutines calling Sync on the same widget.
SyncCallers == {"s1", "s2"}

NoWidget == [none |-> TRUE]
NoRender == [none |-> TRUE]
NoSnapshot == [none |-> TRUE]

\* The widget configurations tried; thresholds come in any order.
WidgetCfgs ==
    {[kind |-> "gauge", PercentValue |-> FALSE, Min |-> 0, Max |-> 0,
      Thresholds |-> <<>>],
     [kind |-> "gauge", PercentValue |-> TRUE, Min |-> 0, Max |-> 200,
      Thresholds |-> <<[StartValue |-> 50, Color |-> "red"],
                       [StartValue |-> 0, Color |-> "green"]>>],
     [kind |-> "singlestat", PercentValue |-> FALSE, Min |-> 0, Max |-> 0,
      Thresholds |-> <<[StartValue |-> 50, Color |-> "red"],
                       [StartValue |-> 0, Color |-> "green"]>>]}

\* sort.Slice(thresholds, StartValue ascending)
RECURSIVE SortThresholds(_)
SortThresholds(ts) ==
    IF ts = <<>> THEN <<>>
    ELSE LET i == CHOOSE k \in DOMAIN ts :
                     \A l \in DOMAIN ts :
                         \/ ts[k].StartValue < ts[l].StartValue
                         \/ ts[k].StartValue = ts[l].StartValue /\ k <= l
             rest == [k \in 1..(Len(ts) - 1) |->
                         IF k < i THEN ts[k] ELSE ts[k + 1]]
         IN <<ts[i]>> \o SortThresholds(rest)

\* syncingFlag.Get
syncingFlagGet(flag) == flag
\* syncingFlag.Set: sets the flag and tells whether that changed it.
syncingFlagSet(flag, v) == [flag |-> v, changed |-> flag # v]

\* Variant: Sync ignores what Set(true) returned.
GuardEnteredAlways(changed) == TRUE
\* if !g.syncLock.Set(true) { return nil }
GuardEntered(changed) == changed

\* Variant: Sync returns without releasing the guard.
deferredReleaseMissing(flag) == flag
\* defer g.syncLock.Set(false)
deferredRelease(flag) == syncingFlagSet(flag, FALSE).flag

\* Variant: the error of GetSingleMetric is not checked.
fetchFailedUnchecked(err) == FALSE
\* if err != nil {...} after GetSingleMetric
fetchFailed(err) == err # NoErr

\* What controller.GetSingleMetric returns, with the error of the widget's
\* two-second context at that time; a metric is the zero Metric on error.
FetchValues == {10, 120}
FetchResults ==
    {[Value |-> v, err |-> NoErr, ctxErr |-> "none", panic |-> FALSE] :
         v \in FetchValues}
    \cup {[Value |-> 0, err |-> ErrConnectionRefused, ctxErr |-> "none",
           panic |-> FALSE],
          [Value |-> 0, err |-> ErrDeadlineExceeded, ctxErr |-> "deadline",
           panic |-> FALSE],
          [Value |-> 0, err |-> ErrCanceled, ctxErr |-> "canceled",
           panic |-> FALSE],
          [Value |-> 0, err |-> NoErr, ctxErr |-> "none", panic |-> TRUE]}

\* What a call of the render widget does.
RenderOutcomes == {"ok", "err", "panic"}
ErrRender == <<"render", "failed">>

\* The error Sync returns for a failed fetch.
FetchError(kind, err, ctxErr) ==
    CASE ctxErr = "deadline" -> Wrap(<<kind, "widget", "timeout">>, err)
      [] ctxErr = "canceled" -> Wrap(<<kind, "widget", "canceled">>, err)
      [] OTHER ->
            Wrap(<<"error", "getting", "single", "instant", "metric">>, err)

\* gauge.getPercentValue
getPercentValue(c, val) ==
    LET v1 == IF c.Max # 0
              THEN ((val - c.Min) * 100) \div (c.Max - c.Min)
              ELSE val
        v2 == IF v1 > 100 THEN 100 ELSE v1
    IN IF v2 < 0 THEN 0 ELSE v2

\* The value Sync renders for a fetched value.
RenderValue(c, val) ==
    IF c.kind = "gauge" /\ c.PercentValue THEN getPercentValue(c, val)
    ELSE val

\* widgetColorManager.GetColorFromThresholds: the colour of the last
\* threshold the value has reached, the first one's below all of them.
RECURSIVE GetColorFromThresholds(_, _)
GetColorFromThresholds(ts, val) ==
    IF Len(ts) = 1 THEN ts[1].Color
    ELSE IF val >= ts[Len(ts)].StartValue THEN ts[Len(ts)].Color
    ELSE GetColorFromThresholds(SubSeq(ts, 1, Len(ts) - 1), val)

\* The rendered state of a widget.
Snapshot(w) ==
    [currentColor |-> w.currentColor, setColorCalls |-> w.setColorCalls,
     renderCalls |-> w.renderCalls, rendered |-> w.rendered]

IdleSync ==
    [pc |-> "idle", accepted |-> FALSE, fetched |-> FALSE, val |-> 0,
     fetchErr |-> NoErr, ret |-> NoErr, exit |-> "none",
     pre |-> NoSnapshot, post |-> NoSnapshot]

\* Sync returns (or panics) on caller c's accepted call: the deferred
\* cancel and the deferred release of the guard run.
SyncExits(w, c, exit, ret) ==
    [w EXCEPT !.syncLock = deferredRelease(w.syncLock),
              !.exits = Append(@, exit),
              !.calls[c].pc = "returned",
              !.calls[c].exit = exit,
              !.calls[c].ret = ret,
              !.calls[c].post = Snapshot(w)]

\* Sync returns nil on a call that found the guard held.
SyncRejected(w, c) ==
    [w EXCEPT !.calls[c] = [IdleSync EXCEPT !.pc = "returned",
                                            !.exit = "rejected"]]

\* NewGauge / NewSinglestat: the thresholds are sorted.
NewWidget(c) ==
    /\ widget = NoWidget
    /\ widget' = [cfg |-> [c EXCEPT !.Thresholds = SortThresholds(@)],
                  syncLock |-> FALSE, currentColor |-> "",
                  setColorCalls |-> 0, renderCalls |-> 0,
                  rendered |-> NoRender, inFlight |-> 0, syncs |-> 0,
                  exits |-> <<>>,
                  calls |-> [s \in SyncCallers |-> IdleSync]]
    /\ UNCHANGED <<engineVars, batch, app, dash, threadVars, raceVars>>

\* Sync is called: if g.syncLock.Get() { return nil }
WidgetSync(c) ==
    /\ widget # NoWidget
    /\ widget.calls[c].pc \in {"idle", "returned"}
    /\ widget.syncs < MaxSyncs
    /\ LET w == [widget EXCEPT !.syncs = @ + 1]
       IN widget' = IF syncingFlagGet(widget.syncLock)
                    THEN SyncRejected(w, c)
                    ELSE [w EXCEPT !.calls[c] = [IdleSync EXCEPT !.pc = "set"]]
    /\ UNCHANGED <<engineVars, batch, app, dash, threadVars, raceVars>>

\* if !g.syncLock.Set(true) { return nil }; the release is deferred, the
\* context is made and controller.GetSingleMetric is called.
SyncSetsGuard(c) ==
    /\ widget # NoWidget
    /\ widget.calls[c].pc = "set"
    /\ LET r == syncingFlagSet(widget.syncLock, TRUE)
           w == [widget EXCEPT !.syncLock = r.flag]
       IN widget' = IF ~GuardEntered(r.changed)
                    THEN SyncRejected(w, c)
                    ELSE [w EXCEPT !.inFlight = @ + 1,
                                   !.calls[c].pc = "fetch",
                                   !.calls[c].accepted = TRUE,
                                   !.calls[c].fetched = TRUE,
                                   !.calls[c].pre = Snapshot(widget)]
    /\ UNCHANGED <<engineVars, batch, app, dash, threadVars, raceVars>>

\* controller.GetSingleMetric returns or panics.
FetchReturns(c, res) ==
    /\ widget # NoWidget
    /\ widget.calls[c].pc = "fetch"
    /\ LET w == [widget EXCEPT !.inFlight = @ - 1,
                               !.calls[c].fetchErr = res.err]
       IN widget' =
            IF res.panic THEN SyncExits(w, c, "panic", NoErr)
            ELSE IF fetchFailed(res.err)
            THEN SyncExits(w, c, "fetch error",
                           FetchError(widget.cfg.kind, res.err, res.ctxErr))
            ELSE [w EXCEPT !.calls[c].pc = "render",
                           !.calls[c].val = RenderValue(widget.cfg, res.Value)]
    /\ UNCHANGED <<engineVars, batch, app, dash, threadVars, raceVars>>

\* changeWidgetColor and the render widget's Sync, then Sync returns.
\* setColor and sync: what rendererWidget.SetColor and rendererWidget.Sync
\* do if they are called ("unit err": singlestat's valueToText fails first).
RenderReturns(c, setColor, sync) ==
    /\ widget # NoWidget
    /\ widget.calls[c].pc = "render"
    /\ sync = "unit err" => widget.cfg.kind = "singlestat"
    /\ LET val == widget.calls[c].val
           ts == widget.cfg.Thresholds
           color == IF ts = <<>> THEN widget.currentColor
                    ELSE GetColorFromThresholds(ts, val)
           changes == color # widget.currentColor
           w1 == IF changes
                 THEN [widget EXCEPT !.setColorCalls = @ + 1,
                          !.currentColor = IF setColor = "ok" THEN color ELSE @]
                 ELSE widget
           w2 == [w1 EXCEPT !.renderCalls = @ + 1,
                            !.rendered = IF sync = "ok" THEN <<val>> ELSE @]
       IN widget' =
            IF changes /\ setColor = "panic"
            THEN SyncExits(w1, c, "panic", NoErr)
            ELSE IF changes /\ setColor = "err"
            THEN SyncExits(w1, c, "color error",
                    Wrap(<<"error", "changing", "widget", "color">>,
                         Wrap(<<"error", "setting", "color", "on", "view",
                                "widget">>, ErrRender)))
            ELSE IF sync = "unit err"
            THEN SyncExits(w1, c, "render error",
                    Wrap(<<"error", "rendering", "value">>,
                         <<"error", "creating", "unit", "formatter">>))
            ELSE IF sync = "panic" THEN SyncExits(w2, c, "panic", NoErr)
            ELSE IF sync = "err"
            THEN SyncExits(w2, c, "render error",
                    Wrap(<<"error", "setting", "value", "on", "render",
                           "view", "widget">>, ErrRender))
            ELSE SyncExits(w2, c, "success", NoErr)
    /\ UNCHANGED <<engineVars, batch, app, dash, threadVars, raceVars>>

InitWidget == widget = NoWidget

NextWidget ==
    \/ \E c \in WidgetCfgs : NewWidget(c)
    \/ \E c \in SyncCallers : WidgetSync(c)
    \/ \E c \in SyncCallers : SyncSetsGuard(c)
    \/ \E c \in SyncCallers, res \in FetchResults : FetchReturns(c, res)
    \/ \E c \in SyncCallers, sc \in RenderOutcomes,
          sy \in RenderOutcomes \cup {"unit err"} : RenderReturns(c, sc, sy)

(***************************************************************************)
(*     ENHANCED GATHERER: CONCURRENT CALLERS (TestEnhancedGatherer_        *)
(*     ThreadSafety): every goroutine makes the same six calls             *)
(***************************************************************************)

\* The timeouts the goroutines pass to SetTimeout: timeouts within the
\* limits, as the test's 3s is.
ThreadTimeouts == {3 * Second, 10 * Second}
\* The duration the goroutines pass to recordExecutionTime.
ThreadExecTime == 50

\* Variant: Lock returns at once, whoever holds the mutex.
LockNoWait(m, g) == {[m EXCEPT !.w = g, !.held = TRUE]}
\* One step of sync.RWMutex.Lock by g: it first shuts out other writers and
\* new readers, then gets the mutex once the readers have left; the empty
\* set while it has to wait.
Lock(m, g) ==
    IF CanLock(m, g) THEN {[m EXCEPT !.held = TRUE]}
    ELSE IF CanBeginLock(m) THEN {[m EXCEPT !.w = g]}
    ELSE {}
Locked(m, g) == m.w = g /\ m.held
\* sync.RWMutex.Unlock
Unlock(m) == [m EXCEPT !.w = "none", !.held = FALSE]

NewThread ==
    [pc |-> "SetTimeout", arg |-> 0, tmp |-> 0, i |-> 0, read |-> 0,
     stats |-> NoStats]

\* SetTimeout(d): the clamping, then eg.mu.Lock() begins.
ThreadSetTimeout(g, d) ==
    /\ threads[g].pc = "SetTimeout"
    /\ threads[g].arg = 0
    /\ threads' = [threads EXCEPT ![g].arg = d, ![g].tmp = clampTimeout(d)]
    /\ UNCHANGED <<egmu, mu, timeout, metrics>>
    /\ UNCHANGED <<lastSetTimeout, rangeCall, calls, procs>>
    /\ UNCHANGED <<routerVars, cacheVars, execVars, batch, app, dash, widget,
                   raceVars>>

\* eg.mu.Lock() of SetTimeout.
ThreadLocksEg(g) ==
    /\ threads[g].pc = "SetTimeout"
    /\ threads[g].arg # 0
    /\ \E m \in Lock(egmu, g) :
          /\ egmu' = m
          /\ threads' = [threads EXCEPT ![g].pc =
                            IF Locked(m, g) THEN "assign" ELSE @]
    /\ UNCHANGED <<mu, timeout, metrics>>
    /\ UNCHANGED <<lastSetTimeout, rangeCall, calls, procs>>
    /\ UNCHANGED <<routerVars, cacheVars, execVars, batch, app, dash, widget,
                   raceVars>>

\* eg.timeout = duration, then the deferred eg.mu.Unlock().
ThreadAssignsTimeout(g) ==
    /\ threads[g].pc = "assign"
    /\ timeout' = threads[g].tmp
    /\ egmu' = Unlock(egmu)
    /\ threads' = [threads EXCEPT ![g].pc = "timeoutDuration"]
    /\ UNCHANGED <<mu, metrics>>
    /\ UNCHANGED <<lastSetTimeout, rangeCall, calls, procs>>
    /\ UNCHANGED <<routerVars, cacheVars, execVars, batch, app, dash, widget,
                   raceVars>>

\* timeoutDuration(): eg.mu.RLock(), the read, RUnlock().
ThreadTimeoutDuration(g) ==
    /\ threads[g].pc = "timeoutDuration"
    /\ CanRLock(egmu)
    /\ threads' = [threads EXCEPT ![g].pc = "GetLastExecutionTime",
                                  ![g].read = timeoutDuration]
    /\ UNCHANGED <<egmu, mu, timeout, metrics>>
    /\ UNCHANGED <<lastSetTimeout, rangeCall, calls, procs>>
    /\ UNCHANGED <<routerVars, cacheVars, execVars, batch, app, dash, widget,
                   raceVars>>

\* GetLastExecutionTime(): eg.metrics.mu.RLock(), the read, RUnlock().
ThreadGetLastExecutionTime(g) ==
    /\ threads[g].pc = "GetLastExecutionTime"
    /\ CanRLock(mu)
    /\ threads' = [threads EXCEPT ![g].pc = "markSuccess",
                                  ![g].read = metrics.averageExecTime]
    /\ UNCHANGED <<egmu, mu, timeout, metrics>>
    /\ UNCHANGED <<lastSetTimeout, rangeCall, calls, procs>>
    /\ UNCHANGED <<routerVars, cacheVars, execVars, batch, app, dash, widget,
                   raceVars>>

\* eg.metrics.mu.Lock() of markSuccess and of recordExecutionTime.
ThreadLocksMetrics(g) ==
    /\ threads[g].pc \in {"markSuccess", "recordExecutionTime"}
    /\ \E m \in Lock(mu, g) :
          /\ mu' = m
          /\ threads' = [threads EXCEPT
                            ![g].pc = IF ~Locked(m, g) THEN @
                                      ELSE IF @ = "markSuccess" THEN "load"
                                      ELSE "record",
                            ![g].i = 1]
    /\ UNCHANGED <<egmu, timeout, metrics>>
    /\ UNCHANGED <<lastSetTimeout, rangeCall, calls, procs>>
    /\ UNCHANGED <<routerVars, cacheVars, execVars, batch, app, dash, widget,
                   raceVars>>

\* markSuccess, counter++: the counter is read ...
ThreadLoadsCounter(g) ==
    /\ threads[g].pc = "load"
    /\ threads' = [threads EXCEPT
                      ![g].pc = "store",
                      ![g].tmp = metrics[markSuccessFields[threads[g].i]]]
    /\ UNCHANGED <<egmu, mu, timeout, metrics>>
    /\ UNCHANGED <<lastSetTimeout, rangeCall, calls, procs>>
    /\ UNCHANGED <<routerVars, cacheVars, execVars, batch, app, dash, widget,
                   raceVars>>

\* ... and written back plus one; after the last counter the deferred
\* eg.metrics.mu.Unlock() runs.
ThreadStoresCounter(g) ==
    /\ threads[g].pc = "store"
    /\ LET i == threads[g].i
           last == i = Len(markSuccessFields)
       IN /\ metrics' = [metrics EXCEPT ![markSuccessFields[i]] =
                                            threads[g].tmp + 1]
          /\ mu' = IF last THEN Unlock(mu) ELSE mu
          /\ threads' = [threads EXCEPT
                            ![g].pc = IF last THEN "recordExecutionTime"
                                      ELSE "load",
                            ![g].i = i + 1]
    /\ UNCHANGED <<egmu, timeout>>
    /\ UNCHANGED <<lastSetTimeout, rangeCall, calls, procs>>
    /\ UNCHANGED <<routerVars, cacheVars, execVars, batch, app, dash, widget,
                   raceVars>>

\* The body of recordExecutionTime, then the deferred Unlock().
ThreadRecordsExecutionTime(g) ==
    /\ threads[g].pc = "record"
    /\ metrics' = recordExecutionTime(metrics, ThreadExecTime)
    /\ mu' = Unlock(mu)
    /\ threads' = [threads EXCEPT ![g].pc = "GetMetrics"]
    /\ UNCHANGED <<egmu, timeout>>
    /\ UNCHANGED <<lastSetTimeout, rangeCall, calls, procs>>
    /\ UNCHANGED <<routerVars, cacheVars, execVars, batch, app, dash, widget,
                   raceVars>>

\* GetMetrics: eg.metrics.mu.RLock(), the counters are read.
ThreadGetMetrics(g) ==
    /\ threads[g].pc = "GetMetrics"
    /\ CanRLock(mu)
    /\ mu' = [mu EXCEPT !.readers[g] = @ + 1]
    /\ threads' = [threads EXCEPT
                      ![g].pc = "gm_last",
                      ![g].stats =
                          [TotalQueries |-> metrics.queriesTotal,
                           SuccessfulQueries |-> metrics.queriesSuccessful,
                           FailedQueries |-> metrics.queriesFailed,
                           TimeoutQueries |-> metrics.queriesTimeout,
                           AverageExecTime |-> metrics.averageExecTime,
                           LastExecutionTime |-> 0,
                           CurrentTimeout |-> 0]]
    /\ UNCHANGED <<egmu, timeout, metrics>>
    /\ UNCHANGED <<lastSetTimeout, rangeCall, calls, procs>>
    /\ UNCHANGED <<routerVars, cacheVars, execVars, batch, app, dash, widget,
                   raceVars>>

\* GetMetrics: eg.getLastExecutionTime() takes the read lock once more.
ThreadGetMetricsLast(g) ==
    /\ threads[g].pc = "gm_last"
    /\ CanRLock(mu)
    /\ threads' = [threads EXCEPT
                      ![g].pc = "gm_timeout",
                      ![g].stats.LastExecutionTime = metrics.averageExecTime]
    /\ UNCHANGED <<egmu, mu, timeout, metrics>>
    /\ UNCHANGED <<lastSetTimeout, rangeCall, calls, procs>>
    /\ UNCHANGED <<routerVars, cacheVars, execVars, batch, app, dash, widget,
                   raceVars>>

\* GetMetrics: eg.timeoutDuration() under eg.mu's read lock, the deferred
\* RUnlock(), and the goroutine's done <- true.
ThreadGetMetricsReturns(g) ==
    /\ threads[g].pc = "gm_timeout"
    /\ CanRLock(egmu)
    /\ mu' = [mu EXCEPT !.readers[g] = @ - 1]
    /\ threads' = [threads EXCEPT
                      ![g].pc = "done",
                      ![g].stats.CurrentTimeout = timeoutDuration]
    /\ UNCHANGED <<egmu, timeout, metrics>>
    /\ UNCHANGED <<lastSetTimeout, rangeCall, calls, procs>>
    /\ UNCHANGED <<routerVars, cacheVars, execVars, batch, app, dash, widget,
                   raceVars>>

InitThreads ==
    /\ egmu = [w |-> "none", held |-> FALSE,
               readers |-> [g \in Goroutines |-> 0]]
    /\ threads = [g \in Goroutines |-> NewThread]

NextThreads ==
    \/ \E g \in Goroutines, d \in ThreadTimeouts : ThreadSetTimeout(g, d)
    \/ \E g \in Goroutines : ThreadLocksEg(g)
    \/ \E g \in Goroutines : ThreadAssignsTimeout(g)
    \/ \E g \in Goroutines : ThreadTimeoutDuration(g)
    \/ \E g \in Goroutines : ThreadGetLastExecutionTime(g)
    \/ \E g \in Goroutines : ThreadLocksMetrics(g)
    \/ \E g \in Goroutines : ThreadLoadsCounter(g)
    \/ \E g \in Goroutines : ThreadStoresCounter(g)
    \/ \E g \in Goroutines : ThreadRecordsExecutionTime(g)
    \/ \E g \in Goroutines : ThreadGetMetrics(g)
    \/ \E g \in Goroutines : ThreadGetMetricsLast(g)
    \/ \E g \in Goroutines : ThreadGetMetricsReturns(g)

(***************************************************************************)
(*                 METRIC CACHE: CONCURRENT CALLERS                        *)
(* Get, Set and Clear called from several goroutines, followed statement   *)
(* by statement under MetricCache.mu.  Get holds the mutex for reading     *)
(* only; its two increments are each a load and a store.                   *)
(***************************************************************************)

MaxRaceOps == 4

RaceKey == NewCacheKey(<<"prom">>, <<"up">>, 0)

IdleCacheCall == [pc |-> "idle", tmp |-> 0]

RacePcs(g) == ccalls.procs[g].pc

\* Goroutines that hold mc.mu for reading and are inside Get.
InGet == {g \in Goroutines :
            RacePcs(g) \notin {"idle", "Get", "Set", "Clear"}}

\* The per-entry count of hits served, kept for the entries in the map.
ServedOn(served, entries) ==
    [ck \in DOMAIN entries |-> IF ck \in DOMAIN served THEN served[ck] ELSE 0]

\* A goroutine calls Get, Set or Clear.
RaceCall(g, op) ==
    /\ cache # NoCache
    /\ ~ccalls.fatal
    /\ RacePcs(g) = "idle"
    /\ ccalls.ops < MaxRaceOps
    /\ ccalls' = [ccalls EXCEPT !.procs[g].pc = op, !.ops = @ + 1]
    /\ UNCHANGED <<cmu, cacheVars>>
    /\ UNCHANGED <<routerVars, timeoutVars, gatherVars, lockVars, execVars>>
    /\ UNCHANGED <<batch, app, dash, widget, threadVars>>

\* Get: mc.mu.RLock()
RaceRLock(g) ==
    /\ ~ccalls.fatal
    /\ RacePcs(g) = "Get"
    /\ CanRLock(cmu)
    /\ cmu' = [cmu EXCEPT !.readers[g] = @ + 1]
    /\ ccalls' = [ccalls EXCEPT !.procs[g].pc = "lookup"]
    /\ UNCHANGED cacheVars
    /\ UNCHANGED <<routerVars, timeoutVars, gatherVars, lockVars, execVars>>
    /\ UNCHANGED <<batch, app, dash, widget, threadVars>>

\* Get: the map lookup and the expiry test.
RaceLookup(g) ==
    /\ ~ccalls.fatal
    /\ RacePcs(g) = "lookup"
    /\ LET ck == cacheKey(RaceKey)
           exists == ck \in DOMAIN cache.entries
       IN ccalls' = [ccalls EXCEPT !.procs[g].pc =
                        IF exists /\ Before(now, cache.entries[ck].expires)
                        THEN "load_entry"
                        ELSE IF exists THEN "delete" ELSE "load_misses"]
    /\ UNCHANGED <<cmu, cacheVars>>
    /\ UNCHANGED <<routerVars, timeoutVars, gatherVars, lockVars, execVars>>
    /\ UNCHANGED <<batch, app, dash, widget, threadVars>>

\* Get: delete(mc.entries, cacheKey) for an expired entry.
RaceDelete(g) ==
    /\ ~ccalls.fatal
    /\ RacePcs(g) = "delete"
    /\ cache' = [cache EXCEPT !.entries =
                    IF cacheKey(RaceKey) \in DOMAIN @
                    THEN Remove(@, cacheKey(RaceKey)) ELSE @]
    /\ ccalls' = [ccalls EXCEPT !.procs[g].pc = "load_misses",
                                !.served = ServedOn(@, cache'.entries)]
    /\ UNCHANGED <<cmu, now, nextSweep, cacheOps, lastOp, lastGet>>
    /\ UNCHANGED <<routerVars, timeoutVars, gatherVars, lockVars, execVars>>
    /\ UNCHANGED <<batch, app, dash, widget, threadVars>>

\* The Go runtime stops the program when it sees a map being written while
\* another goroutine reads or writes it.
RaceMapFault(g) ==
    /\ ~ccalls.fatal
    /\ RacePcs(g) \in {"lookup", "delete"}
    /\ \E h \in Goroutines \ {g} : RacePcs(h) = "delete"
    /\ ccalls' = [ccalls EXCEPT !.fatal = TRUE]
    /\ UNCHANGED <<cmu, cacheVars>>
    /\ UNCHANGED <<routerVars, timeoutVars, gatherVars, lockVars, execVars>>
    /\ UNCHANGED <<batch, app, dash, widget, threadVars>>

\* The load half of entry.hits++, mc.hits++ and mc.misses++.
RaceLoads(g) ==
    /\ ~ccalls.fatal
    /\ RacePcs(g) \in {"load_entry", "load_hits", "load_misses"}
    /\ LET ck == cacheKey(RaceKey)
           pc == RacePcs(g)
       IN ccalls' = [ccalls EXCEPT
              !.procs[g].tmp =
                  IF pc = "load_hits" THEN cache.hits
                  ELSE IF pc = "load_misses" THEN cache.misses
                  ELSE IF ck \in DOMAIN cache.entries
                       THEN cache.entries[ck].hits ELSE 0,
              !.procs[g].pc =
                  IF pc = "load_hits" THEN "store_hits"
                  ELSE IF pc = "load_misses" THEN "store_misses"
                  ELSE "store_entry"]
    /\ UNCHANGED <<cmu, cacheVars>>
    /\ UNCHANGED <<routerVars, timeoutVars, gatherVars, lockVars, execVars>>
    /\ UNCHANGED <<batch, app, dash, widget, threadVars>>

\* The store half of entry.hits++.
RaceStoresEntry(g) ==
    /\ ~ccalls.fatal
    /\ RacePcs(g) = "store_entry"
    /\ LET ck == cacheKey(RaceKey)
       IN cache' = IF ck \in DOMAIN cache.entries
                   THEN [cache EXCEPT !.entries[ck].hits =
                                          ccalls.procs[g].tmp + 1]
                   ELSE cache
    /\ ccalls' = [ccalls EXCEPT !.procs[g].pc = "load_hits"]
    /\ UNCHANGED <<cmu, now, nextSweep, cacheOps, lastOp, lastGet>>
    /\ UNCHANGED <<routerVars, timeoutVars, gatherVars, lockVars, execVars>>
    /\ UNCHANGED <<batch, app, dash, widget, threadVars>>

\* The store half of mc.hits++ or mc.misses++, then the return with the
\* deferred mc.mu.RUnlock().
RaceGetReturns(g) ==
    /\ ~ccalls.fatal
    /\ RacePcs(g) \in {"store_hits", "store_misses"}
    /\ LET ck == cacheKey(RaceKey)
           hit == RacePcs(g) = "store_hits"
       IN /\ cache' = IF hit
                      THEN [cache EXCEPT !.hits = ccalls.procs[g].tmp + 1]
                      ELSE [cache EXCEPT !.misses = ccalls.procs[g].tmp + 1]
          /\ ccalls' = [ccalls EXCEPT
                 !.procs[g] = IdleCacheCall,
                 !.done = @ + 1,
                 !.served = IF hit /\ ck \in DOMAIN @
                            THEN [@ EXCEPT ![ck] = @ + 1] ELSE @]
    /\ cmu' = [cmu EXCEPT !.readers[g] = @ - 1]
    /\ UNCHANGED <<now, nextSweep, cacheOps, lastOp, lastGet>>
    /\ UNCHANGED <<routerVars, timeoutVars, gatherVars, lockVars, execVars>>
    /\ UNCHANGED <<batch, app, dash, widget, threadVars>>

\* Set and Clear: mc.mu.Lock()
RaceLock(g) ==
    /\ ~ccalls.fatal
    /\ RacePcs(g) \in {"Set", "Clear"}
    /\ ~Locked(cmu, g)
    /\ cmu' \in Lock(cmu, g)
    /\ UNCHANGED <<ccalls, cacheVars>>
    /\ UNCHANGED <<routerVars, timeoutVars, gatherVars, lockVars, execVars>>
    /\ UNCHANGED <<batch, app, dash, widget, threadVars>>

\* Set under the mutex, then the deferred mc.mu.Unlock().
RaceSet(g) ==
    /\ ~ccalls.fatal
    /\ RacePcs(g) = "Set"
    /\ Locked(cmu, g)
    /\ cache' = Set(cache, RaceKey, SetData(ccalls.ops), now)
    /\ ccalls' = [ccalls EXCEPT
           !.procs[g] = IdleCacheCall,
           !.served = [ServedOn(@, cache'.entries)
                          EXCEPT ![cacheKey(RaceKey)] = 0]]
    /\ cmu' = Unlock(cmu)
    /\ UNCHANGED <<now, nextSweep, cacheOps, lastOp, lastGet>>
    /\ UNCHANGED <<routerVars, timeoutVars, gatherVars, lockVars, execVars>>
    /\ UNCHANGED <<batch, app, dash, widget, threadVars>>

\* Clear under the mutex, then the deferred mc.mu.Unlock().
RaceClear(g) ==
    /\ ~ccalls.fatal
    /\ RacePcs(g) = "Clear"
    /\ Locked(cmu, g)
    /\ cache' = Clear(cache)
    /\ ccalls' = [ccalls EXCEPT !.procs[g] = IdleCacheCall, !.done = 0,
                                !.served = EmptyMap]
    /\ cmu' = Unlock(cmu)
    /\ UNCHANGED <<now, nextSweep, cacheOps, lastOp, lastGet>>
    /\ UNCHANGED <<routerVars, timeoutVars, gatherVars, lockVars, execVars>>
    /\ UNCHANGED <<batch, app, dash, widget, threadVars>>

\* The wall clock passes the lifetime of the entries.
RaceTick ==
    /\ cache # NoCache
    /\ ~ccalls.fatal
    /\ ccalls.ops < MaxRaceOps
    /\ now' = now + cache.maxAge
    /\ ccalls' = [ccalls EXCEPT !.ops = @ + 1]
    /\ UNCHANGED <<cmu, nextSweep, cache, cacheOps, lastOp, lastGet>>
    /\ UNCHANGED <<routerVars, timeoutVars, gatherVars, lockVars, execVars>>
    /\ UNCHANGED <<batch, app, dash, widget, threadVars>>

InitRace ==
    /\ cmu = [w |-> "none", held |-> FALSE,
              readers |-> [g \in Goroutines |-> 0]]
    /\ ccalls = [procs |-> [g \in Goroutines |-> IdleCacheCall], ops |-> 0,
                 done |-> 0, served |-> EmptyMap, fatal |-> FALSE]

NextRace ==
    \/ \E maxSize \in MaxSizes : NewMetricCache(maxSize, CacheTTL)
    \/ \E g \in Goroutines, op \in {"Get", "Set", "Clear"} : RaceCall(g, op)
    \/ \E g \in Goroutines : RaceRLock(g)
    \/ \E g \in Goroutines : RaceLookup(g)
    \/ \E g \in Goroutines : RaceDelete(g)
    \/ \E g \in Goroutines : RaceMapFault(g)
    \/ \E g \in Goroutines : RaceLoads(g)
    \/ \E g \in Goroutines : RaceStoresEntry(g)
    \/ \E g \in Goroutines : RaceGetReturns(g)
    \/ \E g \in Goroutines : RaceLock(g)
    \/ \E g \in Goroutines : RaceSet(g)
    \/ \E g \in Goroutines : RaceClear(g)
    \/ RaceTick

(***************************************************************************)
(*                           SPECIFICATIONS                                *)
(***************************************************************************)

Init == InitRouter /\ InitTimeout /\ InitGatherer /\ InitLock /\ InitCache
        /\ InitExecutor /\ InitBatch /\ InitApp /\ InitDashboard
        /\ InitWidget /\ InitThreads /\ InitRace

SpecRouter == Init /\ [][NextRouter]_vars
SpecTimeout == Init /\ [][NextTimeout]_vars
SpecGatherer == Init /\ [][NextGatherer]_vars
SpecMetrics == Init /\ [][NextMetrics]_vars
SpecCache == Init /\ [][NextCache]_vars
SpecExecutor == Init /\ [][NextExecutor]_vars
SpecAdmission == Init /\ [][NextAdmission]_vars
SpecBatch == Init /\ [][NextBatch]_vars
SpecApp == Init /\ [][NextApp]_vars
SpecDashboard == Init /\ [][NextDashboard]_vars
SpecWidget == Init /\ [][NextWidget]_vars
SpecThreads == Init /\ [][NextThreads]_vars
SpecRace == Init /\ [][NextRace]_vars
SpecSlots == Init /\ [][NextSlots]_vars
\* Every started goroutine keeps running, and every ExecuteQuery returns.
SpecBatchLive == Init /\ [][NextBatch]_vars /\ WF_vars(BatchProgress)

(***************************************************************************)
(*                       PROPERTIES: DATASOURCE ROUTER                     *)
(***************************************************************************)

DashboardIDs == IDsOf(cfg.DashboardDatasources)
UserIDs == IDsOf(cfg.UserDatasources)

\* g is a gatherer created from a user datasource whose ID is id.
IsUserGathererFor(g, id) ==
    /\ g # NoGatherer
    /\ g \in created
    /\ g.origin = "user"
    /\ cfg.UserDatasources[g.idx].ID = id

\* C1 (router priority): for an ID declared by both the dashboard and the
\* user datasources and not the source of an alias, the router's table holds,
\* and every GatherSingle/GatherRange with that ID is dispatched to, a gatherer
\* created from the user datasource with that ID, never the dashboard's.
C1_UserDatasourceReplacesDashboard ==
    \A id \in DatasourceIDs :
        ( /\ router # NoRouter
          /\ id \in DashboardIDs \cap UserIDs
          /\ id \notin DOMAIN cfg.Aliases )
        => /\ IsUserGathererFor(router.gatherers[id], id)
           /\ (lastQuery # NoQuery /\ lastQuery.id = id)
                 => IsUserGathererFor(lastQuery.dispatched, id)

\* A query has been dispatched for an ID declared on both sides, no alias.
C1_Witness ==
    /\ lastQuery # NoQuery
    /\ lastQuery.id \in DashboardIDs \cap UserIDs
    /\ lastQuery.id \notin DOMAIN cfg.Aliases
    /\ lastQuery.dispatched # NoGatherer

\* C2 (alias has the highest priority): a query whose ID is the source of an
\* alias d -> u, with u a user datasource, is dispatched to a gatherer created
\* from user datasource u, whether or not d is a dashboard datasource or a
\* user datasource itself.
C2_AliasWinsOverDirectMatch ==
    ( /\ lastQuery # NoQuery
      /\ lastQuery.id \in DOMAIN cfg.Aliases
      /\ cfg.Aliases[lastQuery.id] \in UserIDs )
    => IsUserGathererFor(lastQuery.dispatched, cfg.Aliases[lastQuery.id])

\* A query to an alias source d that is also a dashboard datasource and a
\* user datasource, aliased to another user datasource.
C2_Witness ==
    /\ lastQuery # NoQuery
    /\ lastQuery.id \in DOMAIN cfg.Aliases
    /\ lastQuery.id \in DashboardIDs \cap UserIDs
    /\ cfg.Aliases[lastQuery.id] # lastQuery.id
    /\ lastQuery.dispatched # NoGatherer

\* Some alias names a target that is no user datasource.
HasInvalidAlias ==
    \E id \in DOMAIN cfg.Aliases : cfg.Aliases[id] \notin UserIDs

\* C3 (invalid alias fails construction): when some alias target is not among
\* the user datasources, NewGatherer returns an error and no router, and no
\* query is ever dispatched.
C3_InvalidAliasFailsConstruction ==
    (cfg # NoCfg /\ HasInvalidAlias)
    => /\ router = NoRouter
       /\ newErr # NoErr
       /\ lastQuery = NoQuery

\* NewGatherer reached the alias loop and rejected an alias whose target
\* exists only as a dashboard datasource.
C3_Witness ==
    /\ cfg # NoCfg
    /\ \E id \in DOMAIN cfg.Aliases :
          /\ cfg.Aliases[id] \in DashboardIDs \ UserIDs
          /\ newErr = AliasErr(cfg.Aliases[id], id)
    /\ router = NoRouter

\* C4 (datasource not found): a query whose ID is not in the table returns the
\* not-found error after one lookup, reaches no gatherer, and no query ever
\* changes the router's table.
C4_NotFoundState ==
    (lastQuery # NoQuery /\ lastQuery.id \notin DOMAIN router.gatherers)
    => /\ lastQuery.err = NotFoundErr(lastQuery.id)
       /\ lastQuery.dispatched = NoGatherer
       /\ lastQuery.lookups = 1

\* C4, in full: the not-found outcome above holds in every state, and no
\* step taken once the router exists changes its table.
C4_NotFoundNoDispatch ==
    /\ []C4_NotFoundState
    /\ [][router # NoRouter => router' = router]_vars

\* A query was refused although the router holds gatherers.
C4_Witness ==
    /\ lastQuery # NoQuery
    /\ lastQuery.err = NotFoundErr(lastQuery.id)
    /\ router # NoRouter
    /\ DOMAIN router.gatherers # {}

(***************************************************************************)
(*                    PROPERTIES: THE CLAMPED TIMEOUT                      *)
(***************************************************************************)

\* C5 (SetTimeout clamps): timeoutDuration() is DefaultTimeout on a fresh
\* gatherer and otherwise the clamp of the last SetTimeout argument d:
\* DefaultTimeout if d <= 0, MinTimeout if 0 < d < 1s, MaxTimeout if d > 30s,
\* d otherwise; so it always lies in [MinTimeout, MaxTimeout].
C5_TimeoutIsClampOfLastArgument ==
    /\ MinTimeout <= timeoutDuration
    /\ timeoutDuration <= MaxTimeout
    /\ lastSetTimeout = <<>> => timeoutDuration = 5 * Second
    /\ lastSetTimeout # <<>> =>
          LET d == lastSetTimeout[1]
          IN /\ d <= 0 => timeoutDuration = DefaultTimeout
             /\ (0 < d /\ d < 1 * Second) => timeoutDuration = MinTimeout
             /\ d > 30 * Second => timeoutDuration = MaxTimeout
             /\ (1 * Second <= d /\ d <= 30 * Second) => timeoutDuration = d

\* SetTimeout(500ms) was the last call and the minimum is stored.
C5_Witness ==
    /\ lastSetTimeout = <<500>>
    /\ timeoutDuration = MinTimeout

Min(a, b) == IF a <= b THEN a ELSE b

\* C6 (range timeout): with start <= end, calculateRangeTimeout returns the
\* base timeout for a range of at most one hour and min(30s, base * range/1h)
\* for a longer one (ranges are whole minutes here); it never exceeds 30s and
\* is non-decreasing in the range length.
C6_RangeTimeoutScalesAndCaps ==
    /\ (rangeCall # NoRangeCall /\ rangeCall.start <= rangeCall.end) =>
          LET len == rangeCall.end - rangeCall.start
              base == rangeCall.base
              r == rangeCall.result
          IN /\ len <= Hour => r = base
             /\ len > Hour =>
                   r = Min(MaxTimeout, (base * (len \div Minute)) \div 60)
             /\ r <= MaxTimeout
    /\ \A s1 \in RangeStarts, s2 \in RangeStarts :
         \A e1 \in RangeEnds, e2 \in RangeEnds :
           (s1 <= e1 /\ s2 <= e2 /\ e1 - s1 <= e2 - s2)
           => calculateRangeTimeout(s1, e1) <= calculateRangeTimeout(s2, e2)

\* A range longer than one hour whose scaled timeout stays under the cap.
C6_Witness ==
    /\ rangeCall # NoRangeCall
    /\ rangeCall.end - rangeCall.start > Hour
    /\ rangeCall.result > rangeCall.base
    /\ rangeCall.result < MaxTimeout

(***************************************************************************)
(*                 PROPERTIES: RETRY LOOP AND OUTCOME COUNTERS             *)
(***************************************************************************)

TimeoutOutcome ==
    [queriesTotal |-> 1, queriesSuccessful |-> 0, queriesFailed |-> 0,
     queriesTimeout |-> 1]
FailureOutcome ==
    [queriesTotal |-> 1, queriesSuccessful |-> 0, queriesFailed |-> 1,
     queriesTimeout |-> 0]

\* C7 (context errors are not retried): a backend attempt that returned a
\* context-classified error is the last attempt of its invocation; the
\* invocation has returned that error and has added one to the total and to
\* the timeout counter, nothing to the failure counter.
C7_ContextErrorStopsRetry ==
    \A p \in Callers :
        \A i \in 1..Len(calls[p].results) :
            isContextError(calls[p].results[i])
            => /\ i = Len(calls[p].results)
               /\ calls[p].pc = "returned"
               /\ calls[p].err = calls[p].results[i]
               /\ calls[p].delta = TimeoutOutcome

\* A range call whose second attempt failed with "request timeout".
C7_Witness ==
    \E p \in Callers :
        /\ calls[p].kind = "range"
        /\ calls[p].results = <<ErrConnectionRefused, ErrRequestTimeout>>
        /\ calls[p].pc = "returned"

\* Every backend attempt of the invocation failed with a non-context error.
AllAttemptsFailedPlainly(c) ==
    /\ c.results # <<>>
    /\ \A i \in 1..Len(c.results) :
          c.results[i] # NoErr /\ ~isContextError(c.results[i])

\* C8 (attempt budget): a GatherSingle whose backend always fails with a
\* non-context error and whose context stays live makes exactly 3 attempts,
\* then returns the last error and records one failure.
C8_ThreeAttemptsThenFailure ==
    \A p \in Callers :
        ( /\ calls[p].pc = "returned"
          /\ calls[p].kind = "single"
          /\ calls[p].ctxErr = NoErr
          /\ AllAttemptsFailedPlainly(calls[p]) )
        => /\ Len(calls[p].results) = 3
           /\ calls[p].err = calls[p].results[Len(calls[p].results)]
           /\ calls[p].delta = FailureOutcome

\* C9 (one outcome per invocation): every invocation that has returned has
\* added exactly one to the total and to exactly one of the success, failure
\* and timeout counters.
C9_ExactlyOneOutcomePerCall ==
    \A p \in Callers :
        calls[p].pc = "returned"
        => /\ calls[p].delta.queriesTotal = 1
           /\ calls[p].delta.queriesSuccessful + calls[p].delta.queriesFailed
                 + calls[p].delta.queriesTimeout = 1

(***************************************************************************)
(*                  PROPERTIES: THE COUNTERS UNDER THE LOCK                *)
(***************************************************************************)

\* The counter a mark operation owns.
OwnCounter(op) ==
    CASE op = "markSuccess" -> "queriesSuccessful"
      [] op = "markFailure" -> "queriesFailed"
      [] op = "markTimeout" -> "queriesTimeout"

\* C10 (total is the sum of the outcomes): every GetMetrics result has
\* TotalQueries = SuccessfulQueries + FailedQueries + TimeoutQueries, under
\* any interleaving of the mark operations; and a mark operation whose body
\* is complete has raised the total and its own counter by one and left the
\* other counters as they were when it took the lock.
C10_TotalIsSumOfOutcomes ==
    \A g \in Goroutines :
        /\ procs[g].stats # NoStats =>
              procs[g].stats.TotalQueries =
                 procs[g].stats.SuccessfulQueries
                 + procs[g].stats.FailedQueries
                 + procs[g].stats.TimeoutQueries
        /\ procs[g].pc = "unlock" =>
              \A f \in DOMAIN ZeroDelta :
                 metrics[f] = procs[g].pre[f]
                    + (IF f \in {"queriesTotal", OwnCounter(procs[g].op)}
                       THEN 1 ELSE 0)

\* GetMetrics returned a snapshot with all three outcomes counted while the
\* other goroutine was waiting for, or inside, a mark operation.
C10_Witness ==
    \E g \in Goroutines, h \in Goroutines :
        /\ g # h
        /\ procs[g].pc = "idle"
        /\ procs[g].stats # NoStats
        /\ procs[g].stats.SuccessfulQueries > 0
        /\ procs[g].stats.FailedQueries > 0
        /\ procs[g].stats.TimeoutQueries > 0
        /\ procs[h].pc \in {"locking", "body", "unlock"}


(***************************************************************************)
(*                        PROPERTIES: METRIC CACHE                         *)
(***************************************************************************)

\* The last Get was made right after a Set of the same key: no other
\* Get, Set or Clear came between them (the clock and the cleanup routine
\* may have run).
SetThenGet ==
    /\ lastGet # NoGet
    /\ lastGet.prev.op = "Set"
    /\ lastGet.prev.key = lastGet.key

\* C11: a Set(key, data) followed by a Get(key) before the entry's expiry
\* returns exactly that data with found = true, whether or not the key
\* held an older entry before the Set.
C11_SetThenGetReturnsData ==
    SetThenGet /\ lastGet.at < lastGet.prev.at + cache.maxAge
        => lastGet.found /\ lastGet.data = lastGet.prev.data

\* A Get, some time after a Set that replaced older, different data, has
\* returned the new data.
C11_Witness ==
    /\ SetThenGet
    /\ lastGet.prev.had
    /\ lastGet.prev.old # lastGet.prev.data
    /\ lastGet.at > lastGet.prev.at
    /\ lastGet.found
    /\ lastGet.data = lastGet.prev.data

\* C12: an entry stored at time t expires at t + maxAge; a Get is a hit
\* exactly when it finds an entry and the clock is strictly before the
\* entry's expiry; a Get that finds an expired entry removes it (one
\* entry fewer) and counts one miss and no hit.
C12_EntryExpiresAfterMaxAge ==
    /\ cache # NoCache =>
         \A k \in DOMAIN cache.entries :
            cache.entries[k].expires = cache.entries[k].created + cache.maxAge
    /\ lastGet # NoGet =>
         /\ lastGet.found <=>
              (lastGet.had /\ lastGet.at < lastGet.entry.expires)
         /\ lastGet.had =>
              lastGet.entry.expires = lastGet.entry.created + cache.maxAge
         /\ SetThenGet =>
              (lastGet.found <=> lastGet.at < lastGet.prev.at + cache.maxAge)
         /\ lastGet.had /\ ~lastGet.found =>
              /\ cacheKey(lastGet.key) \notin DOMAIN lastGet.after.entries
              /\ Size(lastGet.after) = Size(lastGet.before) - 1
              /\ lastGet.after.misses = lastGet.before.misses + 1
              /\ lastGet.after.hits = lastGet.before.hits
         /\ lastGet.found =>
              /\ lastGet.after.hits = lastGet.before.hits + 1
              /\ lastGet.after.misses = lastGet.before.misses
              /\ Size(lastGet.after) = Size(lastGet.before)

\* A Get made exactly maxAge after the Set of its key found the entry
\* expired and removed it.
C12_Witness ==
    /\ SetThenGet
    /\ lastGet.at = lastGet.prev.at + cache.maxAge
    /\ lastGet.had
    /\ ~lastGet.found
    /\ Size(lastGet.after) = Size(lastGet.before) - 1

\* C13: keys that differ in the datasource ID, the query or the time
\* range address distinct entries: the data a Get returns was stored by a
\* Set with the very same key.
C13_GetReturnsOnlyOwnKeysData ==
    lastGet # NoGet /\ lastGet.found => lastGet.entry.owner = lastGet.key


(***************************************************************************)
(*                       PROPERTIES: QUERY EXECUTOR                        *)
(***************************************************************************)

Returned(p) == qcalls[p].pc = "returned"

OneCacheHit == [ZeroExecutionMetrics EXCEPT !.totalQueries = 1, !.cacheHits = 1]
OneError == [ZeroExecutionMetrics EXCEPT !.totalQueries = 1, !.errors = 1]
OneSuccess == [ZeroExecutionMetrics EXCEPT !.totalQueries = 1, !.successes = 1]

\* C14: an ExecuteQuery that hits the cache returns the cached data, has
\* made no gatherer call, has taken no semaphore slot, has not written the
\* cache, and has recorded exactly one cache hit and nothing else.
C14_CacheHitReturnsImmediately ==
    \A p \in QCallers :
        Returned(p) /\ qcalls[p].exit = "hit" =>
            /\ qcalls[p].cached # NoEntry
            /\ qcalls[p].data = qcalls[p].cached.data
            /\ qcalls[p].err = NoErr
            /\ qcalls[p].results = <<>>
            /\ qcalls[p].acquired = 0
            /\ qcalls[p].released = 0
            /\ qcalls[p].sets = 0
            /\ qcalls[p].delta = OneCacheHit

\* A call has returned from a cache hit.
C14_Witness ==
    \E p \in QCallers :
        /\ Returned(p)
        /\ qcalls[p].exit = "hit"
        /\ qcalls[p].data # NilData

\* Calls past admission: those of the callers and the further ones.
InFlight ==
    Cardinality({p \in QCallers : qcalls[p].pc \in {"call", "backoff"}})
        + others

\* C15: the number of calls past admission, and so the number of gatherer
\* calls in flight, never exceeds MaxConcurrentCalls; every such call
\* holds one slot.
C15_AtMostMaxConcurrentCalls ==
    qe # NoExecutor =>
        /\ InFlight <= MaxConcurrentCalls
        /\ qe.semaphore = InFlight

\* All slots are held, one of them by a caller whose gatherer call is in
\* flight, and another caller waits for a slot.
C15_Witness ==
    /\ qe # NoExecutor
    /\ InFlight = MaxConcurrentCalls
    /\ \E p, q \in QCallers :
          /\ qcalls[p].pc = "call"
          /\ qcalls[q].pc = "admission"

\* C16: a call whose context ended while it waited for a slot returns the
\* rate-limit-timeout error wrapping the context's error; it has made no
\* gatherer call, has not written the cache, and has neither taken nor
\* released a slot.
C16_RateLimitTimeout ==
    \A p \in QCallers :
        Returned(p) /\ qcalls[p].exit = "ratelimit" =>
            /\ qcalls[p].ctxErr # NoErr
            /\ qcalls[p].err = RateLimitPrefix \o <<":">> \o qcalls[p].ctxErr
            /\ qcalls[p].results = <<>>
            /\ qcalls[p].sets = 0
            /\ qcalls[p].acquired = 0
            /\ qcalls[p].released = 0

\* A call has returned the rate-limit-timeout error while all slots were
\* held.
C16_Witness ==
    \E p \in QCallers :
        /\ Returned(p)
        /\ qcalls[p].exit = "ratelimit"
        /\ qcalls[p].full
        /\ qe.semaphore = MaxConcurrentCalls

\* Every gatherer call so far of p's ExecuteQuery failed with an error
\* that names neither a deadline, a cancellation nor a timeout.
AllFailedPlainly(p) ==
    \A i \in 1..Len(qcalls[p].results) :
        /\ qcalls[p].results[i].err # NoErr
        /\ ~isContextError(qcalls[p].results[i].err)

\* C17: with the context live, a gatherer that fails every attempt with a
\* non-context error is called exactly MaxRetransmission times and the last
\* error is returned wrapped with the attempt count; a success on attempt k
\* returns that result after exactly k calls; no call makes more than
\* MaxRetransmission attempts.
C17_ThreeAttemptsThenWrappedError ==
    \A p \in QCallers :
        /\ Len(qcalls[p].results) <= MaxRetransmission
        /\ Returned(p) /\ qcalls[p].acquired = 1 /\ qcalls[p].ctxErr = NoErr
              /\ AllFailedPlainly(p) =>
              /\ Len(qcalls[p].results) = MaxRetransmission
              /\ qcalls[p].exit = "error"
              /\ qcalls[p].err =
                    <<"query", "failed", "after", "3", "attempts", ":">>
                        \o qcalls[p].results[MaxRetransmission].err
        /\ Returned(p) /\ qcalls[p].exit = "success" =>
              LET k == Len(qcalls[p].results)
              IN /\ k >= 1
                 /\ qcalls[p].results[k].err = NoErr
                 /\ qcalls[p].data = qcalls[p].results[k].data
                 /\ \A i \in 1..(k - 1) : qcalls[p].results[i].err # NoErr

\* A call has returned the wrapped error after three failed attempts made
\* with the context live.
C17_Witness ==
    \E p \in QCallers :
        /\ Returned(p)
        /\ qcalls[p].ctxErr = NoErr
        /\ Len(qcalls[p].results) = MaxRetransmission
        /\ AllFailedPlainly(p)
        /\ qcalls[p].exit = "error"

\* err reports a passed deadline or a cancellation, bare or prefixed.
IsDeadlineOrCancellation(err) ==
    /\ err # NoErr
    /\ \/ Contains(err, <<"deadline", "exceeded">>)
       \/ Contains(err, <<"canceled">>)

\* C18: once a gatherer attempt has returned a deadline-exceeded or
\* cancellation error, in whatever form, the call makes no further attempt:
\* such an error is the call's last result and no gatherer call is in
\* flight after it.
C18_DeadlineErrorIsNeverRetried ==
    \A p \in QCallers :
        \A i \in 1..Len(qcalls[p].results) :
            IsDeadlineOrCancellation(qcalls[p].results[i].err) =>
                /\ i = Len(qcalls[p].results)
                /\ qcalls[p].pc # "call"

\* The unexpired part of the cache at time t: map key to data and expiry.
LiveData(mc, t) ==
    IF mc = NoCache THEN EmptyMap
    ELSE [k \in {x \in DOMAIN mc.entries : t < mc.entries[x].expires} |->
             [data |-> mc.entries[k].data, expires |-> mc.entries[k].expires]]

\* What is said of the states for C19.
C19_State ==
    /\ lastSuccess # NoSuccess /\ now < lastSuccess.at + cache.maxAge =>
          LET ck == cacheKey(lastSuccess.key)
          IN /\ ck \in DOMAIN cache.entries
             /\ cache.entries[ck].data = lastSuccess.data
             /\ cache.entries[ck].expires = lastSuccess.at + cache.maxAge
    /\ \A p \in QCallers :
          /\ qcalls[p].pc # "idle" /\ qcalls[p].seen # NoSuccess
                /\ qcalls[p].seen.key = qcalls[p].key
                /\ qcalls[p].enterAt < qcalls[p].seen.at + cache.maxAge =>
                /\ Returned(p)
                /\ qcalls[p].exit = "hit"
                /\ qcalls[p].data = qcalls[p].seen.data
                /\ qcalls[p].results = <<>>
          /\ Returned(p) /\ qcalls[p].exit \in {"error", "ratelimit"} =>
                qcalls[p].sets = 0

\* What is said of the steps for C19: only the write-back of a successful
\* call changes an unexpired entry.
C19_Step ==
    (now' = now /\ \A p \in QCallers : qcalls'[p].exit # "success"
                                        \/ qcalls'[p] = qcalls[p])
        => LiveData(cache', now) = LiveData(cache, now)

C20_OneOutcomePerReturn ==
    \A p \in QCallers :
        Returned(p) =>
            IF qcalls[p].err # NoErr
            THEN qcalls[p].delta = OneError
            ELSE \/ qcalls[p].exit = "success" /\ qcalls[p].delta = OneSuccess
                 \/ qcalls[p].exit = "hit" /\ qcalls[p].delta = OneCacheHit

(***************************************************************************)
(*                 CLAIMS C21-C22: ExecuteWidgetQueries                    *)
(***************************************************************************)

DistinctIDs(widgets) ==
    \A i, j \in DOMAIN widgets : widgets[i].ID = widgets[j].ID => i = j

BatchReturnedLive ==
    /\ batch # NoBatch
    /\ batch.returned
    /\ ~batch.ctxDone
    /\ DistinctIDs(batch.widgets)

C21_State ==
    BatchReturnedLive =>
        /\ DOMAIN batch.results = {batch.widgets[i].ID : i \in DOMAIN batch.widgets}
        /\ Cardinality(DOMAIN batch.results) = Len(batch.widgets)
        /\ \A i \in DOMAIN batch.widgets :
              LET w == batch.widgets[i]
                  r == batch.results[w.ID]
              IN /\ r.ID = w.ID
                 /\ r.worker = i
                 /\ r = batch.workers[i].result
                 /\ [Metrics |-> r.Metrics, Error |-> r.Error] \in QueryOutcomes(w)
                 /\ r.Error # NoErr \/ r.Metrics = <<"metrics">> \o w.Query

C21_Step ==
    (batch # NoBatch /\ batch' # NoBatch /\ DistinctIDs(batch.widgets)) =>
        \A id \in DOMAIN batch.results :
            /\ id \in DOMAIN batch'.results
            /\ batch'.results[id] = batch.results[id]

\* C21: a batch of n widget queries with distinct IDs, run while the parent
\* context is not ended, returns a map with exactly n entries, one per ID,
\* each holding the metrics or the non-nil error of that ID's own query; no
\* entry is removed or altered once it is in the map.
C21_BatchReturnsOneEntryPerID == []C21_State /\ [][C21_Step]_vars

C21_Witness ==
    /\ BatchReturnedLive
    /\ Len(batch.widgets) = 2
    /\ batch.results[batch.widgets[1].ID].Error # NoErr
    /\ batch.results[batch.widgets[2].ID].Error = NoErr

BatchStarted == batch # NoBatch
BatchReturned == batch # NoBatch /\ batch.returned

C22_Safe ==
    batch # NoBatch =>
        /\ batch.panic = NoPanic
        /\ batch.closes <= 1
        /\ batch.closed =>
              /\ batch.closes = 1
              /\ \A i \in DOMAIN batch.workers : batch.workers[i].pc = "done"
        /\ batch.returned => batch.closed
        /\ \A i \in DOMAIN batch.workers :
              /\ batch.workers[i].dropped => batch.ctxDone
              /\ batch.workers[i].pc = "select" =>
                    /\ ~batch.closed
                    /\ Len(batch.resultsCh) < batch.capacity

\* C22: ExecuteWidgetQueries always returns when every ExecuteQuery returns:
\* a worker at its select can always send (the channel is open and has
\* room), the channel is closed once and only after every worker has
\* finished, and a worker drops its result only when the parent context has
\* ended.
C22_BatchAlwaysReturns == []C22_Safe /\ (BatchStarted ~> BatchReturned)

C22_Witness ==
    /\ BatchReturned
    /\ batch.ctxDone
    /\ \E i, j \in DOMAIN batch.workers :
          batch.workers[i].dropped /\ batch.workers[j].sent

(***************************************************************************)
(*                    CLAIMS C23-C24: App.Run's loop                       *)
(***************************************************************************)

AppRunning == app # NoApp /\ app.pc # "new"

\* C23: Run makes one sync pass on start, before the ticker exists and so
\* before any tick, and then one pass per tick received; a pass starts only
\* when the one before has returned, so at most one is in flight.
C23_OnePassOnStartThenOnePerTick ==
    AppRunning =>
        /\ app.started = 1 + app.ticksReceived
        /\ app.ticksReceived <= app.ticksFired
        /\ app.ticksFired > 0 => app.finished >= 1
        /\ app.started - app.finished \in {0, 1}
        /\ app.started - app.finished = 1 <=> app.pc = "pass"

C23_Witness ==
    /\ AppRunning
    /\ app.ticksReceived = 2
    /\ app.finished = 3
    /\ app.pc = "select"

C24_State ==
    app # NoApp =>
        /\ app.pc # "crashed"
        /\ Len(app.log) = app.failed
        /\ app.pc = "returned" => app.ctxDone /\ app.ret = NoErr

C24_Step ==
    (app # NoApp /\ app' # NoApp) =>
        /\ (app.pc = "pass" /\ app'.pc # "pass") =>
              /\ app'.pc = "select"
              /\ app'.finished = app.finished + 1
        /\ (app.failed > 0 /\ app'.ticksReceived = app.ticksReceived + 1) =>
              /\ app'.pc = "pass"
              /\ app'.started = app.started + 1

\* C24: a panic or an error inside a sync pass is caught and logged inside
\* the pass: the pass returns to the loop, Run neither returns nor crashes,
\* the ticks received afterwards start passes, and Run returns only when its
\* context is cancelled, with nil.
C24_PassFailureStaysInsideThePass == []C24_State /\ [][C24_Step]_vars

\* Two passes have failed, the later one by a panic, a tick has started a
\* pass, and Run has returned.
C24_Witness ==
    /\ app # NoApp
    /\ app.failed >= 2
    /\ app.lastOutcome = "panic"
    /\ app.pc = "returned"
    /\ app.ticksReceived >= 1

(***************************************************************************)
(*                    CLAIMS C25-C26: dashboard.Sync                       *)
(***************************************************************************)

DashSyncCalled == dash # NoDashboard /\ dash.pc # "idle"
DashSyncReturned == dash # NoDashboard /\ dash.pc = "returned"

\* C25: dashboard.Sync starts one task per configured widget, goes on past
\* wg.Wait only when every task has finished, and returns nil whatever the
\* tasks' outcomes were.
C25_SyncWaitsForEveryTaskAndReturnsNil ==
    DashSyncCalled =>
        /\ dash.pc # "crashed"
        /\ DOMAIN dash.tasks = DOMAIN dash.widgets
        /\ dash.pc \in {"drain", "returned"} =>
              \A i \in DOMAIN dash.tasks : dash.tasks[i].pc = "done"
        /\ dash.pc = "returned" => dash.ret = NoErr

\* Sync has returned after a nil widget and after a widget whose Sync
\* returned an error past the deadline.
C25_Witness ==
    /\ DashSyncReturned
    /\ dash.ctxErr = "deadline"
    /\ \E i, j \in DOMAIN dash.tasks :
          /\ dash.tasks[i].outcome = "nil widget"
          /\ dash.tasks[j].outcome = "error"

ReportsOf(i) == SelectSeq(dash.errorChan \o dash.logged, LAMBDA e : e.from = i)

C26_State ==
    DashSyncCalled =>
        /\ dash.pc # "crashed"
        /\ \A i \in DOMAIN dash.tasks :
              dash.tasks[i].outcome = "panic" =>
                  /\ dash.tasks[i].pc = "done"
                  /\ dash.tasks[i].reported = 1
                  /\ Len(ReportsOf(i)) = 1
                  /\ ReportsOf(i)[1].msg = "widget sync panic recovered"
        /\ dash.pc = "returned" =>
              \A j \in DOMAIN dash.tasks :
                  dash.widgets[j] # "nil" =>
                      dash.tasks[j].invoked /\ dash.tasks[j].pc = "done"

C26_Step ==
    (DashSyncCalled /\ dash.pc = "wait" /\ dash'.pc = "wait") =>
        \A i \in DOMAIN dash.tasks :
            (dash.tasks[i].outcome # "panic" /\ dash'.tasks[i].outcome = "panic")
               => \A j \in DOMAIN dash.tasks \ {i} :
                      dash'.tasks[j] = dash.tasks[j]

\* C26: a panic inside one widget's Sync ends in that widget's task, which
\* reports exactly one error for it; nothing crashes, the other tasks are
\* left as they are, and every other widget's Sync has been called and has
\* completed when dashboard.Sync returns.
C26_WidgetPanicStaysInItsTask == []C26_State /\ [][C26_Step]_vars

C26_Witness ==
    /\ DashSyncReturned
    /\ \E i, j \in DOMAIN dash.tasks :
          /\ dash.tasks[i].outcome = "panic"
          /\ dash.tasks[j].outcome = "nil"
          /\ dash.tasks[j].invoked
    /\ Len(dash.logged) = 1

(***************************************************************************)
(*                 CLAIMS C27-C29: THE WIDGETS' Sync                       *)
(***************************************************************************)

PastGuard == {c \in SyncCallers : widget.calls[c].pc \in {"fetch", "render"}}
Rejected(w, c) == w.calls[c].pc = "returned" /\ w.calls[c].exit = "rejected"

C27_State ==
    widget # NoWidget =>
        /\ Cardinality(PastGuard) <= 1
        /\ widget.inFlight <= 1
        /\ \A c \in SyncCallers :
              Rejected(widget, c) =>
                  /\ widget.calls[c].ret = NoErr
                  /\ ~widget.calls[c].fetched
                  /\ widget.calls[c].pre = NoSnapshot

C27_Step ==
    (widget # NoWidget /\ widget' # NoWidget) =>
        \A c \in SyncCallers :
            (/\ widget.calls[c].pc \in {"idle", "returned", "set"}
             /\ widget.syncLock
             /\ widget'.calls[c] # widget.calls[c])
               => /\ Rejected(widget', c)
                  /\ Snapshot(widget') = Snapshot(widget)
                  /\ widget'.inFlight = widget.inFlight

\* C27: on one widget at most one Sync call is past the guard at any time,
\* so at most one GetSingleMetric is in flight; a call that finds the guard
\* held returns nil in that very step, having called neither the controller
\* nor the render widget.
C27_AtMostOneSyncPastTheGuard == []C27_State /\ [][C27_Step]_vars

\* One call is fetching while the other has been rejected.
C27_Witness ==
    /\ widget # NoWidget
    /\ widget.calls["s1"].pc = "fetch"
    /\ Rejected(widget, "s2")

C28_State ==
    widget # NoWidget => (widget.syncLock <=> PastGuard # {})

C28_Step ==
    (widget # NoWidget /\ widget' # NoWidget) =>
        \A c \in SyncCallers :
            /\ (~Rejected(widget, c) /\ Rejected(widget', c)) =>
                   widget'.syncLock = widget.syncLock
            /\ (c \in PastGuard /\ widget'.calls[c].pc = "returned") =>
                   ~widget'.syncLock
            /\ (widget.exits # <<>> /\ PastGuard = {}
                /\ widget.calls[c].pc = "set"
                /\ widget'.calls[c] # widget.calls[c]) =>
                   widget'.calls[c].pc = "fetch"

\* C28: the guard is held exactly while an accepted Sync is in progress: it
\* is released on every return of an accepted call (success, fetch error,
\* colour error, render error, panic), so a call that reaches the guard
\* after that return is accepted and fetches; a rejected call leaves the
\* guard as it found it.
C28_GuardIsReleasedOnEveryExit == []C28_State /\ [][C28_Step]_vars

\* After accepted calls have left by a panic and by a fetch error, a call
\* is accepted and is fetching.
C28_Witness ==
    /\ widget # NoWidget
    /\ widget.exits = <<"panic", "fetch error">>
    /\ PastGuard # {}

FetchFailedCalls ==
    {c \in SyncCallers :
        widget.calls[c].pc = "returned" /\ widget.calls[c].fetchErr # NoErr}
SucceededCalls ==
    {c \in SyncCallers :
        widget.calls[c].pc = "returned" /\ widget.calls[c].exit = "success"}

\* C29: a Sync whose fetch failed returns an error and has left the colour,
\* the rendered value and the render widget's call counts as they were; no
\* error state is kept: a Sync that succeeds afterwards renders its value.
C29_FailedFetchLeavesRenderedStateAlone ==
    widget # NoWidget =>
        /\ \A c \in FetchFailedCalls :
              /\ widget.calls[c].exit = "fetch error"
              /\ widget.calls[c].ret # NoErr
              /\ widget.calls[c].post = widget.calls[c].pre
        /\ \A c \in SucceededCalls :
              /\ widget.calls[c].ret = NoErr
              /\ widget.calls[c].post.renderCalls
                    = widget.calls[c].pre.renderCalls + 1
              /\ widget.calls[c].post.rendered = <<widget.calls[c].val>>

\* A fetch failed after the widget had rendered a value in red, and the
\* next accepted call succeeded.
C29_Witness ==
    /\ widget # NoWidget
    /\ widget.exits = <<"success", "fetch error", "success">>
    /\ \E c \in FetchFailedCalls : widget.calls[c].pre.currentColor = "red"
    /\ SucceededCalls # {}

(***************************************************************************)
(*              CLAIM C30: CONCURRENT CALLERS OF THE GATHERER              *)
(***************************************************************************)

AllThreadsDone == \A g \in Goroutines : threads[g].pc = "done"

\* C30: when every goroutine has made its six calls, SuccessfulQueries and
\* TotalQueries both equal the number of goroutines, and the stored timeout
\* is one of the values handed to SetTimeout.
C30_NoLostUpdates ==
    AllThreadsDone =>
        /\ metrics.queriesSuccessful = Cardinality(Goroutines)
        /\ metrics.queriesTotal = Cardinality(Goroutines)
        /\ timeout \in {threads[g].arg : g \in Goroutines}

\* The goroutines have passed different timeouts and all have finished.
C30_Witness ==
    /\ AllThreadsDone
    /\ threads["g1"].arg # threads["g2"].arg
    /\ threads["g1"].stats.TotalQueries = 1

(***************************************************************************)
(*        CLAIM C31: THE CONCURRENT CALLERS ARE NEVER ALL STUCK            *)
(***************************************************************************)

\* C31: under any interleaving of the goroutines' calls every call returns
\* in the end: as long as some goroutine has not finished, some goroutine
\* can take a step; in particular a GetMetrics that holds the read lock and
\* takes it again in getLastExecutionTime is not kept waiting behind a
\* writer that waits for the same lock.
C31_EveryCallCanReturn ==
    /\ AllThreadsDone \/ ENABLED NextThreads
    /\ \A g \in Goroutines :
          threads[g].pc = "gm_last" => ENABLED ThreadGetMetricsLast(g)


\* C32: the cache's mutable state is changed only by a goroutine that holds
\* mc.mu exclusively, the runtime never sees two goroutines in the entry
\* map at once, and whenever no Get is in progress hits + misses is the
\* number of Get calls completed since the last Clear and every entry's hit
\* count is the number of hits served from it.
C32_CacheStateChangesOnlyUnderTheLock ==
    /\ ~ccalls.fatal
    /\ \A g \in Goroutines :
          RacePcs(g) \in {"delete", "store_entry", "store_hits",
                          "store_misses"} => Locked(cmu, g)
    /\ (cache # NoCache /\ InGet = {}) =>
          /\ cache.hits + cache.misses = ccalls.done
          /\ \A ck \in DOMAIN cache.entries :
                cache.entries[ck].hits = ccalls.served[ck]


\* The entries of mc, other than the one under map key ck, that the step
\* leaves out of the map.
RemovedBy(ck) ==
    {x \in DOMAIN cache.entries \ {ck} : x \notin DOMAIN cache'.entries}
Expired(x) == now > cache.entries[x].expires
KeptAsIs(x) ==
    x \in DOMAIN cache'.entries /\ cache'.entries[x] = cache.entries[x]

\* A Set call made with count entries in the map.
C33_SetStep ==
    LET ck == cacheKey(lastOp'.key)
        count == Cardinality(DOMAIN cache.entries)
        rest == DOMAIN cache.entries \ {ck}
    IN /\ ck \in DOMAIN cache'.entries
       /\ IF 2 * count > cache.maxSize
          THEN RemovedBy(ck) = {x \in rest : Expired(x)}
          ELSE RemovedBy(ck) = {}
       /\ \A x \in rest \ RemovedBy(ck) : KeptAsIs(x)
       /\ DOMAIN cache'.entries \subseteq DOMAIN cache.entries \cup {ck}

\* One event of the periodic sweep.
C33_SweepStep ==
    /\ {x \in DOMAIN cache.entries : x \notin DOMAIN cache'.entries}
          = {x \in DOMAIN cache.entries : Expired(x)}
    /\ \A x \in DOMAIN cache'.entries :
          x \in DOMAIN cache.entries /\ KeptAsIs(x)

ReturnsNow(p) == calls[p].pc # "returned" /\ calls'[p].pc = "returned"

\* C34: recordExecutionTime(d) stores d while no successful query has been
\* counted, and otherwise the equal-weight blend (previous + d) / 2 of the
\* previous value and the new sample, whatever the earlier samples were;
\* GetLastExecutionTime returns the stored value.
C34_AverageIsBlendOfPreviousAndSample ==
    [][\A p \in Callers : ReturnsNow(p) =>
          LET d == calls'[p].duration
              prev == getLastExecutionTime(metrics)
              got == getLastExecutionTime(metrics')
          IN IF metrics'.queriesSuccessful = 0
             THEN got = d
             ELSE 2 * got <= prev + d /\ prev + d <= 2 * got + 1]_vars

\* A call that took 100 failed, then a call that took 200 succeeded: the
\* exposed value is 150.
C34_Witness ==
    /\ metrics.queriesTotal = 2
    /\ metrics.queriesSuccessful = 1
    /\ \E p \in Callers : calls[p].pc = "returned" /\ calls[p].duration = 200
    /\ getLastExecutionTime(metrics) = 150


OneTimeout ==
    [queriesTotal |-> 1, queriesSuccessful |-> 0, queriesFailed |-> 0,
     queriesTimeout |-> 1]

\* C35: a GatherSingle or GatherRange call entered with a context that is
\* already cancelled or past its deadline never calls the backend, and it
\* returns a context-classified error having recorded exactly one timeout
\* outcome: total +1, timeout +1, success and failure unchanged.
C35_EndedContextRecordsOneTimeoutWithoutBackendCall ==
    \A p \in Callers :
        calls[p].parentErr # NoErr =>
            /\ calls[p].pc \in {"loop", "returned"}
            /\ calls[p].results = <<>>
            /\ calls[p].pc = "returned" =>
                  /\ isContextError(calls[p].err)
                  /\ calls[p].delta = OneTimeout

\* A GatherSingle call and a GatherRange call, each entered with an ended
\* context, have returned.
C35_Witness ==
    \E p, q \in Callers :
        /\ calls[p].kind = "single" /\ calls[q].kind = "range"
        /\ calls[p].pc = "returned" /\ calls[q].pc = "returned"
        /\ calls[p].parentErr = ErrCanceled
        /\ calls[q].parentErr = ErrDeadlineExceeded


\* C40: once the first GatherSingle call on a fresh gatherer has returned
\* successfully after duration d, GetLastExecutionTime() is d: the first
\* sample is stored as it is, not blended with the initial zero.
C40_FirstSampleIsStoredAsIs ==
    \A p \in Callers :
        (/\ Started(Callers) = 1
         /\ calls[p].pc = "returned"
         /\ calls[p].kind = "single"
         /\ calls[p].exit = "success")
            => getLastExecutionTime(metrics) = calls[p].duration


\* The callers whose ExecuteQuery call was admitted and has not returned.
HoldingSlot == {p \in QCallers : qcalls[p].pc \in {"call", "backoff"}}

\* C36: the slots held are those of the ExecuteQuery calls that were
\* admitted and have not returned; a call gives back the one slot it took
\* on every exit, be it a result, an error or a panic of the gatherer; and
\* once every call has returned no slot is held.
C36_SlotsNeverLeak ==
    qe # NoExecutor =>
        /\ qe.semaphore = others + Cardinality(HoldingSlot)
        /\ \A p \in QCallers :
              /\ qcalls[p].acquired \in {0, 1}
              /\ qcalls[p].acquired - qcalls[p].released =
                    IF p \in HoldingSlot THEN 1 ELSE 0
        /\ (others = 0 /\ HoldingSlot = {}) => qe.semaphore = 0

\* One admitted call ended in a panic of the gatherer and another returned
\* a result, both slots are back.
C36_Witness ==
    /\ qe # NoExecutor
    /\ qe.semaphore = 0
    /\ \E p, q \in QCallers :
          /\ qcalls[p].pc = "panicked" /\ qcalls[p].released = 1
          /\ qcalls[q].exit = "success" /\ qcalls[q].released = 1


\* C37: in dashboard.Sync every task sends at most one error whatever path
\* it takes, the errors in the channel never exceed its capacity
\* len(d.widgets), so no task ever waits in a send; the channel is closed
\* only when every task has finished, and nothing is sent on it after that.
C37_ErrorChannelNeverBlocksNorPanics ==
    DashSyncCalled =>
        /\ dash.pc # "crashed"
        /\ dash.capacity = Len(dash.widgets)
        /\ Len(dash.errorChan) <= dash.capacity
        /\ \A i \in DOMAIN dash.tasks :
              /\ dash.tasks[i].reported <= 1
              /\ Len(ReportsOf(i)) = dash.tasks[i].reported
              /\ dash.tasks[i].pc # "blocked"
        /\ dash.closed => \A i \in DOMAIN dash.tasks : dash.tasks[i].pc = "done"

\* Every task has sent its error, one for a nil widget and one for a
\* recovered panic: the channel is full, and closed.
C37_Witness ==
    /\ DashSyncCalled
    /\ dash.closed
    /\ Len(dash.errorChan) = dash.capacity
    /\ Len(dash.widgets) = MaxDashWidgets
    /\ \E i, j \in DOMAIN dash.tasks :
          /\ dash.tasks[i].outcome = "nil widget"
          /\ dash.tasks[j].outcome = "panic"


\* The IDs a query can be resolved under.
RoutableIDs == IDsOf(cfg.DashboardDatasources) \cup DOMAIN cfg.Aliases

\* The user datasources a gatherer was created for.
CreatedUserIDs ==
    {cfg.UserDatasources[g.idx].ID : g \in {x \in created : x.origin = "user"}}

\* C38: the router resolves exactly the dashboard datasource IDs and the
\* alias source IDs; a query naming any other ID, that of a user datasource
\* a gatherer was created for included, gets the datasource-not-found error
\* and is dispatched to no gatherer.
C38_OnlyDashboardAndAliasIDsAreRoutable ==
    router # NoRouter =>
        /\ DOMAIN router.gatherers = RoutableIDs
        /\ (lastQuery # NoQuery /\ lastQuery.id \notin RoutableIDs) =>
              /\ lastQuery.err = NotFoundErr(lastQuery.id)
              /\ lastQuery.dispatched = NoGatherer

\* A query named a user datasource that has its gatherer but is neither a
\* dashboard ID nor an alias source, and got the not-found error.
C38_Witness ==
    /\ router # NoRouter
    /\ lastQuery # NoQuery
    /\ lastQuery.id \in CreatedUserIDs \ RoutableIDs
    /\ lastQuery.err = NotFoundErr(lastQuery.id)


C39_State ==
    app # NoApp =>
        /\ Cardinality(app.ran) <= 1
        /\ app.started > 0 => app.ran # {}
        /\ \A c \in RunCallers :
              /\ c \in app.ran => app.callers[c].pc \in {"running", "returned"}
              /\ (app.callers[c].pc = "returned" /\ c \notin app.ran) =>
                    app.callers[c].ret = ErrAlreadyRunning
              /\ (app.callers[c].pc = "returned" /\ c \in app.ran) =>
                    app.callers[c].ret = NoErr
        /\ app.pc = "pass" =>
              \E c \in app.ran : app.callers[c].pc = "running"
        /\ app.ran # {} => app.running

C39_Step ==
    (app # NoApp /\ app' # NoApp) =>
        /\ app.running => app'.running
        /\ \A c \in RunCallers :
              (app.callers[c].pc # "returned" /\ app'.callers[c].pc = "returned"
               /\ c \notin app.ran)
                 => /\ app'.started = app.started
                    /\ app'.pc = app.pc

\* C39: at most one Run call per App ever makes sync passes: the first one
\* to pass the mutex sets the running flag, which is never reset, and every
\* other Run call, made while the first is running or after it returned,
\* returns the "already running" error without a sync pass.
C39_OnlyOneRunEverSyncs == []C39_State /\ [][C39_Step]_vars

\* One Run call made its passes and returned; another call, which came
\* while the first held the mutex, was then rejected.
C39_Witness ==
    /\ app # NoApp
    /\ app.pc = "returned"
    /\ app.finished >= 2
    /\ \E c \in RunCallers :
          /\ c \notin app.ran
          /\ app.callers[c].waited
          /\ app.callers[c].pc = "returned"
          /\ app.callers[c].ret = ErrAlreadyRunning

=============================================================================
